---- MODULE Spec2Model ----
(***************************************************************************)
(* AudioCryptor: LSB audio steganography of an authenticated-encrypted     *)
(* message.  The model follows src/utils/bytes.py (bit packer, CRC-32),    *)
(* src/services/stego.py (header codec, scatter indices, embed, extract,   *)
(* capacity), src/services/crypto.py (key derivation, AEAD) and the decode *)
(* worker of src/tabs_decode.py.                                           *)
(*                                                                         *)
(* Bytes are integers 0..255, byte strings and bit lists are sequences,    *)
(* samples are 16-bit signed integers.  32-bit unsigned quantities that do *)
(* not fit a 32-bit signed integer are kept as two 16-bit halves.           *)
(***************************************************************************)
EXTENDS Integers, Sequences, FiniteSets, TLC

(***************************************************************************)
(* Errors.  Every failure of the services is a StegoError whose text is    *)
(* built by wrapping: text is the list of message parts, outermost first,  *)
(* nums the numbers formatted into the message.                            *)
(***************************************************************************)
StegoError(parts, nums) == [ok |-> FALSE, cls |-> "StegoError", text |-> parts, nums |-> nums]

\* except Exception as e: raise StegoError(f"<prefix>: {str(e)}")
Wrap(prefix, e) == [e EXCEPT !.cls = "StegoError", !.text = <<prefix>> \o e.text]

\* An exception of the runtime (IndexError, struct.error, ...), not yet wrapped.
Raise(cls, msg) == [ok |-> FALSE, cls |-> cls, text |-> <<msg>>, nums |-> <<>>]

(***************************************************************************)
(* src/utils/bytes.py                                                      *)
(***************************************************************************)
Pow2(k) == 2 ^ k

\* a function over 1..n built as a list of n computed elements
Seq1(f, n) == SubSeq(f, 1, n)

\* bit k (0 = lowest) of a non-negative integer
BitOf(v, k) == (v \div Pow2(k)) % 2

\* each byte expanded into 8 bits, least significant bit first
bytes_to_bits_lsb_first(data) ==
    Seq1([k \in 1..(8 * Len(data)) |-> BitOf(data[((k - 1) \div 8) + 1], (k - 1) % 8)],
         8 * Len(data))

\* BitPacker.bytes_to_bits: each byte expanded into 8 bits, MSB first
bytes_to_bits(data) ==
    Seq1([k \in 1..(8 * Len(data)) |-> BitOf(data[((k - 1) \div 8) + 1], 7 - ((k - 1) % 8))],
         8 * Len(data))

\* the while loop of bits_to_bytes: bits.append(0) until len(bits) % 8 = 0
PadBits(bits) ==
    bits \o Seq1([k \in 1..((8 - (Len(bits) % 8)) % 8) |-> 0], (8 - (Len(bits) % 8)) % 8)

\* the inner loop of bits_to_bytes: byte |= bits[i + j] << (7 - j)
RECURSIVE PackByte(_, _, _, _)
PackByte(bits, i, j, byte) ==
    IF j = 8 THEN byte
    ELSE PackByte(bits, i, j + 1,
                  IF i + j < Len(bits) /\ bits[i + j + 1] = 1
                     /\ BitOf(byte, 7 - j) = 0
                  THEN byte + Pow2(7 - j) ELSE byte)

\* the for loop of bits_to_bytes over the padded list: 8 bits per byte, MSB first
PackBytes(padded) ==
    Seq1([b \in 1..(Len(padded) \div 8) |-> PackByte(padded, 8 * (b - 1), 0, 0)],
         Len(padded) \div 8)

\* BitPacker.bits_to_bytes: pads, then groups 8 bits per byte, MSB first
bits_to_bytes(bits) == PackBytes(PadBits(bits))

\* exclusive or of two bits
XorBit(a, b) == IF a = b THEN 0 ELSE 1

\* a ^ b of two non-negative integers
RECURSIVE Xor(_, _)
Xor(a, b) ==
    IF a = 0 THEN b
    ELSE IF b = 0 THEN a
    ELSE XorBit(a % 2, b % 2) + 2 * Xor(a \div 2, b \div 2)

(***************************************************************************)
(* zlib.crc32.  An unsigned 32-bit value v is kept as the pair             *)
(* <<v >> 16, v & 0xffff>> of its 16-bit halves.  CrcTable is zlib's table *)
(* for the reflected polynomial 0xEDB88320: entry n+1 is the register      *)
(* after 8 shift steps of the value n.                                     *)
(***************************************************************************)
CrcTable == <<
    <<0, 0>>, <<30471, 12438>>, <<60942, 24876>>, <<39177, 20922>>,
    <<1901, 50201>>, <<28778, 62607>>, <<59747, 42293>>, <<40548, 38307>>,
    <<3803, 34866>>, <<31196, 47268>>, <<57557, 59678>>, <<38866, 55688>>,
    <<2486, 19499>>, <<32433, 31933>>, <<59320, 11527>>, <<37055, 7569>>,
    <<7607, 4196>>, <<27312, 8434>>, <<62393, 29000>>, <<33982, 16862>>,
    <<6874, 54397>>, <<28125, 58603>>, <<62676, 46417>>, <<33747, 34247>>,
    <<4972, 38998>>, <<25707, 43200>>, <<64866, 63866>>, <<35429, 51692>>,
    <<5121, 23631>>, <<25350, 27865>>, <<64015, 15715>>, <<36104, 3573>>,
    <<15214, 8392>>, <<19561, 4190>>, <<54624, 16868>>, <<41575, 29042>>,
    <<15363, 58577>>, <<19204, 54343>>, <<53773, 34301>>, <<42250, 46443>>,
    <<13749, 43258>>, <<17074, 39020>>, <<56251, 51670>>, <<44220, 63808>>,
    <<13016, 27875>>, <<17887, 23669>>, <<56534, 3535>>, <<43985, 15705>>,
    <<9945, 12460>>, <<20958, 58>>, <<51415, 20864>>, <<49104, 24854>>,
    <<8628, 62645>>, <<22195, 50211>>, <<53178, 38297>>, <<47293, 42255>>,
    <<10242, 47262>>, <<24325, 34824>>, <<50700, 55730>>, <<45323, 59684>>,
    <<12143, 31879>>, <<22632, 19473>>, <<49505, 7595>>, <<46694, 11581>>,
    <<30428, 16784>>, <<475, 28934>>, <<39122, 8380>>, <<61397, 4138>>,
    <<29105, 34185>>, <<1718, 46367>>, <<40895, 58533>>, <<59576, 54323>>,
    <<30727, 51618>>, <<3840, 63796>>, <<38409, 43150>>, <<57614, 38936>>,
    <<32618, 3515>>, <<2157, 15661>>, <<37220, 27799>>, <<58979, 23553>>,
    <<27499, 20980>>, <<7276, 24930>>, <<34149, 12504>>, <<62050, 78>>,
    <<27654, 38381>>, <<6913, 42363>>, <<33288, 62657>>, <<62735, 50263>>,
    <<26032, 55750>>, <<4791, 59728>>, <<35774, 47338>>, <<64697, 34940>>,
    <<25309, 7647>>, <<5594, 11593>>, <<36051, 31987>>, <<64468, 19557>>,
    <<19890, 24920>>, <<15029, 20942>>, <<41916, 116>>, <<54459, 12514>>,
    <<19167, 42305>>, <<15832, 38359>>, <<42193, 50285>>, <<54230, 62715>>,
    <<17257, 59754>>, <<13422, 55804>>, <<44391, 34886>>, <<55904, 47312>>,
    <<17412, 11635>>, <<13059, 7653>>, <<43530, 19551>>, <<56589, 31945>>,
    <<20485, 28988>>, <<9986, 16810>>, <<48651, 4112>>, <<51468, 8326>>,
    <<22376, 46373>>, <<8303, 34227>>, <<47462, 54281>>, <<52833, 58527>>,
    <<24286, 63758>>, <<10713, 51608>>, <<45264, 38946>>, <<51159, 43188>>,
    <<22963, 15639>>, <<11956, 3457>>, <<47037, 23611>>, <<49338, 27821>>,
    <<60856, 33568>>, <<39615, 46006>>, <<950, 57868>>, <<29873, 53914>>,
    <<60117, 18233>>, <<40402, 30639>>, <<1243, 9749>>, <<29660, 5763>>,
    <<58211, 2834>>, <<37988, 15236>>, <<3437, 27198>>, <<31338, 23208>>,
    <<58382, 53003>>, <<37641, 65437>>, <<2560, 44583>>, <<32007, 40625>>,
    <<61455, 37700>>, <<34568, 41938>>, <<7681, 62056>>, <<26886, 49918>>,
    <<63330, 22365>>, <<32869, 26571>>, <<6508, 13937>>, <<28267, 1767>>,
    <<65236, 7030>>, <<35283, 11232>>, <<4314, 31322>>, <<26589, 19148>>,
    <<63929, 57199>>, <<36542, 61433>>, <<6071, 48707>>, <<24752, 36565>>,
    <<54998, 41960>>, <<41425, 37758>>, <<14552, 49860>>, <<20447, 62034>>,
    <<53691, 26609>>, <<42684, 22375>>, <<16309, 1757>>, <<18610, 13899>>,
    <<55309, 11226>>, <<44810, 6988>>, <<13827, 19190>>, <<16644, 31328>>,
    <<57184, 61379>>, <<43111, 57173>>, <<12654, 36591>>, <<18025, 48761>>,
    <<52065, 45964>>, <<48230, 33562>>, <<9583, 53920>>, <<21096, 57910>>,
    <<52236, 30613>>, <<47883, 18179>>, <<8706, 5817>>, <<21765, 9775>>,
    <<50618, 15294>>, <<45757, 2856>>, <<11188, 23186>>, <<23731, 27140>>,
    <<49879, 65447>>, <<46544, 53041>>, <<11481, 40587>>, <<23518, 44573>>,
    <<39780, 49840>>, <<60515, 61990>>, <<30058, 41884>>, <<621, 37642>>,
    <<39945, 1705>>, <<60174, 13887>>, <<29191, 26501>>, <<1280, 22291>>,
    <<38335, 19074>>, <<58040, 31252>>, <<31665, 11182>>, <<3254, 6968>>,
    <<37586, 36507>>, <<58837, 48653>>, <<31964, 61367>>, <<3035, 57121>>,
    <<34515, 53972>>, <<61908, 57922>>, <<26845, 46072>>, <<8154, 33646>>,
    <<33214, 5837>>, <<63161, 9819>>, <<28592, 30689>>, <<6327, 18295>>,
    <<34824, 23270>>, <<65295, 27248>>, <<26118, 15306>>, <<4353, 2908>>,
    <<36709, 40703>>, <<63586, 44649>>, <<24939, 65491>>, <<5740, 53061>>,
    <<40970, 57976>>, <<55053, 53998>>, <<19972, 33620>>, <<14595, 46018>>,
    <<42855, 9825>>, <<53344, 5879>>, <<18793, 18253>>, <<15982, 30683>>,
    <<44753, 27210>>, <<55766, 23260>>, <<16607, 2918>>, <<14296, 15344>>,
    <<43452, 44627>>, <<57019, 40645>>, <<18354, 53119>>, <<12469, 65513>>,
    <<48573, 61980>>, <<51898, 49802>>, <<21427, 37680>>, <<9396, 41894>>,
    <<47824, 13829>>, <<52695, 1683>>, <<21726, 22313>>, <<9177, 26559>>,
    <<45926, 31278>>, <<50273, 19128>>, <<23912, 6914>>, <<10863, 11156>>,
    <<46091, 48695>>, <<49932, 36513>>, <<23045, 57115>>, <<11522, 61325>>
>>

\* t ^ (crc >> 8), t the table entry
CrcMix(t, reg) ==
    <<Xor(t[1], reg[1] \div 256), Xor(t[2], ((reg[1] % 256) * 256) + (reg[2] \div 256))>>

\* crc = table[(crc ^ byte) & 0xff] ^ (crc >> 8)
CrcByte(reg, byte) == CrcMix(CrcTable[Xor(reg[2] % 256, byte) + 1], reg)

\* for byte in data: the register after the bytes from position i on
\* (CrcNext has the register computed before the next byte is taken)
RECURSIVE CrcFold(_, _, _)
CrcNext(reg, data, i) == IF Len(reg) = 2 THEN CrcFold(reg, data, i) ELSE reg

CrcFold(reg, data, i) ==
    IF i > Len(data) THEN reg ELSE CrcNext(CrcByte(reg, data[i]), data, i + 1)

\* crc ^ 0xffffffff
Complement(reg) == <<65535 - reg[1], 65535 - reg[2]>>

\* calculate_crc32: zlib.crc32(data) & 0xffffffff (initial value and final
\* complement 0xffffffff)
calculate_crc32(data) == Complement(CrcFold(<<65535, 65535>>, data, 1))

\* struct.pack('>I', v) of a 32-bit value kept as two halves: 4 bytes, big-endian
PackU32(v) == <<v[1] \div 256, v[1] % 256, v[2] \div 256, v[2] % 256>>

\* struct.unpack('>I', bytes)[0], as two halves
UnpackU32(bytes) == <<bytes[1] * 256 + bytes[2], bytes[3] * 256 + bytes[4]>>

(***************************************************************************)
(* src/services/stego.py: StegoService.__init__ and the header codec       *)
(***************************************************************************)
\* self.magic_bytes = b'ASTG'
magic_bytes == <<65, 83, 84, 71>>

\* self.version
version == 1

\* self.header_size
header_size == 42

\* 16s / 12s of struct.pack: the field truncated or zero-padded to n bytes
FitBytes(b, n) == Seq1([k \in 1..n |-> IF k <= Len(b) THEN b[k] ELSE 0], n)

\* struct.pack 'I' of an integer below 2^31: two 16-bit halves
U32(n) == <<n \div 65536, n % 65536>>

\* the scatter flag put in bit 3: flags |= 0x08
HeaderFlagsBit3(lsb_bits, scatter) == (lsb_bits % 4) + (IF scatter THEN 8 ELSE 0)

\* flags = lsb_bits & 0x03; if scatter: flags |= 0x04
HeaderFlags(lsb_bits, scatter) == (lsb_bits % 4) + (IF scatter THEN 4 ELSE 0)

\* crc32 = calculate_crc32(header); header += struct.pack('>I', crc32)
AppendCrc(header) == header \o PackU32(calculate_crc32(header))

\* _create_header with the payload length packed little-endian ('<I')
create_header_little_endian(salt, nonce, payload_length, lsb_bits, scatter) ==
    AppendCrc(magic_bytes \o <<version, HeaderFlags(lsb_bits, scatter)>>
              \o FitBytes(salt, 16) \o FitBytes(nonce, 12)
              \o <<payload_length % 256, (payload_length \div 256) % 256,
                   (payload_length \div 65536) % 256, payload_length \div 16777216>>)

\* _create_header: magic, version, flags, salt, nonce, payload length, CRC-32
create_header(salt, nonce, payload_length, lsb_bits, scatter) ==
    AppendCrc(magic_bytes \o <<version, HeaderFlags(lsb_bits, scatter)>>
              \o FitBytes(salt, 16) \o FitBytes(nonce, 12)
              \o PackU32(U32(payload_length)))

\* the integer of a 32-bit value kept as two halves (below 2^31 in the model)
IntOf(v) == v[1] * 65536 + v[2]

\* the checks of _parse_header after the CRC check, on the 38 bytes before the CRC
ParseFields(h) ==
    IF Len(h) # 38
    THEN Wrap("Header parsing failed",
              Raise("struct.error", "unpack requires a buffer of 38 bytes"))
    ELSE IF SubSeq(h, 1, 4) # magic_bytes
    THEN Wrap("Failed to parse header",
              StegoError(<<"Invalid magic bytes - file not encoded with this tool">>, <<>>))
    ELSE IF h[5] # version
    THEN Wrap("Failed to parse header", StegoError(<<"Unsupported version">>, <<h[5]>>))
    ELSE IF h[6] % 4 < 1 \/ h[6] % 4 > 3
    THEN Wrap("Failed to parse header", StegoError(<<"Invalid LSB bits">>, <<h[6] % 4>>))
    ELSE [ok |-> TRUE,
          version |-> h[5],
          lsb_bits |-> h[6] % 4,
          scatter |-> BitOf(h[6], 2) = 1,
          salt |-> SubSeq(h, 7, 22),
          nonce |-> SubSeq(h, 23, 34),
          payload_length |-> IntOf(UnpackU32(SubSeq(h, 35, 38)))]

\* _parse_header with the field checks run before the CRC comparison
parse_header_fields_first(header_bytes) ==
    IF Len(header_bytes) < header_size
    THEN Wrap("Failed to parse header", StegoError(<<"Header too short">>, <<>>))
    ELSE IF ~ParseFields(SubSeq(header_bytes, 1, Len(header_bytes) - 4)).ok
    THEN ParseFields(SubSeq(header_bytes, 1, Len(header_bytes) - 4))
    ELSE IF calculate_crc32(SubSeq(header_bytes, 1, Len(header_bytes) - 4))
            # UnpackU32(SubSeq(header_bytes, Len(header_bytes) - 3, Len(header_bytes)))
    THEN Wrap("Failed to parse header",
              StegoError(<<"Header CRC verification failed">>, <<>>))
    ELSE ParseFields(SubSeq(header_bytes, 1, Len(header_bytes) - 4))

\* _parse_header without the comparison of lines 269-270
parse_header_no_crc(header_bytes) ==
    IF Len(header_bytes) < header_size
    THEN Wrap("Failed to parse header", StegoError(<<"Header too short">>, <<>>))
    ELSE ParseFields(SubSeq(header_bytes, 1, Len(header_bytes) - 4))

\* _parse_header: the fields of a header, or the error of the first check that fails
parse_header(header_bytes) ==
    IF Len(header_bytes) < header_size
    THEN Wrap("Failed to parse header", StegoError(<<"Header too short">>, <<>>))
    ELSE IF calculate_crc32(SubSeq(header_bytes, 1, Len(header_bytes) - 4))
            # UnpackU32(SubSeq(header_bytes, Len(header_bytes) - 3, Len(header_bytes)))
    THEN Wrap("Failed to parse header",
              StegoError(<<"Header CRC verification failed">>, <<>>))
    ELSE ParseFields(SubSeq(header_bytes, 1, Len(header_bytes) - 4))

(***************************************************************************)
(* _generate_scatter_indices.  hashlib.sha256 and random.Random are        *)
(* library code: the digest prefix is modelled by a 16-bit polynomial hash *)
(* of the bytes, the generator by a linear congruential generator; both    *)
(* are deterministic functions of the salt, as the originals are.  The     *)
(* shuffle is random.shuffle's loop.                                       *)
(***************************************************************************)
\* b"scatter"
ScatterTag == <<115, 99, 97, 116, 116, 101, 114>>

RECURSIVE HashFold(_, _, _)
HashFold(h, data, i) ==
    IF i > Len(data) THEN h ELSE HashFold((h * 31 + data[i]) % 65521, data, i + 1)

\* int.from_bytes(hashlib.sha256(seed_data).digest()[:4], 'big')
DigestSeed(seed_data) == HashFold(7, seed_data, 1)

\* one draw of the generator: the next state
RngNext(state) == (state * 75 + 74) % 65537

\* x[i], x[j] = x[j], x[i] at the 0-based positions i and j
Swap(x, i, j) == [x EXCEPT ![i + 1] = x[j + 1], ![j + 1] = x[i + 1]]

\* the step with x[i] = x[j] alone, not a swap
ShuffleStepCopy(acc, i) ==
    [rng |-> RngNext(acc.rng),
     x |-> [acc.x EXCEPT ![i + 1] = acc.x[(RngNext(acc.rng) % (i + 1)) + 1]]]

\* j = randbelow(i + 1) and the swap, at the 0-based position i
ShuffleStep(acc, i) ==
    [rng |-> RngNext(acc.rng), x |-> Swap(acc.x, i, RngNext(acc.rng) % (i + 1))]

\* for i in reversed(range(1, len(x))): the steps number lo..hi in order, step t
\* at i = len(x) - t (ShuffleRest has the list computed before the next steps)
RECURSIVE ShuffleLoop(_, _, _)
ShuffleRest(left, lo, hi) == IF left.rng >= 0 THEN ShuffleLoop(left, lo, hi) ELSE left

ShuffleLoop(acc, lo, hi) ==
    IF lo > hi THEN acc
    ELSE IF lo = hi THEN ShuffleStep(acc, Len(acc.x) - lo)
    ELSE ShuffleRest(ShuffleLoop(acc, lo, (lo + hi) \div 2), ((lo + hi) \div 2) + 1, hi)

\* rng.shuffle(indices) of indices = list(range(total_samples))
Shuffled(seed, total_samples) ==
    ShuffleLoop([rng |-> seed, x |-> Seq1([k \in 1..total_samples |-> k - 1], total_samples)],
                1, total_samples - 1).x

\* _generate_scatter_indices without the check of lines 328-329
generate_scatter_indices_unchecked(count, total_samples, salt) ==
    [ok |-> TRUE,
     indices |-> SubSeq(Shuffled(DigestSeed(salt \o ScatterTag), total_samples),
                        1, IF count > total_samples THEN total_samples ELSE count)]

\* _generate_scatter_indices: the first count entries of the shuffled range
generate_scatter_indices(count, total_samples, salt) ==
    IF count > total_samples
    THEN Wrap("Failed to generate scatter indices",
              StegoError(<<"Not enough samples for scatter pattern">>, <<>>))
    ELSE [ok |-> TRUE,
          indices |-> SubSeq(Shuffled(DigestSeed(salt \o ScatterTag), total_samples), 1, count)]

\* the call with random.seed(seed); random.shuffle(indices) in place of
\* random.Random(seed): the same indices, the module-level generator reseeded
scatter_call_seed_module(count, total_samples, salt, module_rng) ==
    [result |-> generate_scatter_indices(count, total_samples, salt),
     module_rng |-> DigestSeed(salt \o ScatterTag)]

\* the call with the module-level generator of random in place of
\* random.Random(seed): random.shuffle(indices), which draws from it
scatter_call_module_rng(count, total_samples, salt, module_rng) ==
    [result |-> IF count > total_samples
                THEN Wrap("Failed to generate scatter indices",
                          StegoError(<<"Not enough samples for scatter pattern">>, <<>>))
                ELSE [ok |-> TRUE,
                      indices |-> SubSeq(Shuffled(module_rng, total_samples), 1, count)],
     module_rng |-> RngNext(module_rng)]

\* one call of _generate_scatter_indices and the module-level generator of
\* random after it: rng = random.Random(seed) is a generator of its own, the
\* module-level one is not drawn from
scatter_call(count, total_samples, salt, module_rng) ==
    [result |-> generate_scatter_indices(count, total_samples, salt),
     module_rng |-> module_rng]

(***************************************************************************)
(* Sample buffers.  A numpy array of int16 is the record of its shape and  *)
(* of its elements in row-major order.                                     *)
(***************************************************************************)
\* the value stored into an int16 element
ToInt16(v) == ((v + 32768) % 65536) - 32768

\* audio_data.size
Size(audio_data) == Len(audio_data.data)

\* audio_data.reshape(-1) in place of line 94: a view, so that writes to it
\* reach the caller's array
FlatView(audio_data) == [data |-> audio_data.data, view |-> TRUE]

\* line 94, audio_data.flatten().copy(): a new one-dimensional array; view
\* tells whether writes to it reach the caller's array (they do not: a copy)
FlatCopy(audio_data) == [data |-> audio_data.data, view |-> FALSE]

\* line 144 left out: the one-dimensional working array returned as it is
ReshapeFlat(flat, shape) == [shape |-> <<Len(flat)>>, data |-> flat]

\* flat_audio.reshape(original_shape)
Reshape(flat, shape) == [shape |-> shape, data |-> flat]

(***************************************************************************)
(* calculate_capacity.  loaded is what audio_service.load_audio returned:  *)
(* [ok |-> TRUE, audio_data |-> ...] or the error it raised.  Only the     *)
(* shape of the array is read: len(audio_data) is shape[0].                *)
(***************************************************************************)
\* lines 40-43: total_samples
TotalSamples(shape) == IF Len(shape) = 1 THEN shape[1] ELSE shape[1] * shape[2]

\* max(0, x)
Max0(x) == IF x > 0 THEN x ELSE 0

\* calculate_capacity with available_bytes = total_bytes - header_size, unclamped
calculate_capacity_unclamped(loaded, lsb_bits) ==
    IF ~loaded.ok THEN Wrap("Failed to calculate capacity", loaded)
    ELSE [ok |-> TRUE,
          value |-> ((TotalSamples(loaded.audio_data.shape) * lsb_bits) \div 8) - header_size]

calculate_capacity(loaded, lsb_bits) ==
    IF ~loaded.ok THEN Wrap("Failed to calculate capacity", loaded)
    ELSE [ok |-> TRUE,
          value |-> Max0(((TotalSamples(loaded.audio_data.shape) * lsb_bits) \div 8)
                         - header_size)]

(***************************************************************************)
(* embed_message                                                           *)
(***************************************************************************)
\* a mask one bit wider: ~((1 << (lsb_bits + 1)) - 1)
ClearLsbsWide(sample, lsb_bits) == sample - (sample % Pow2(lsb_bits + 1))

\* mask = ~((1 << lsb_bits) - 1); cleared_sample = sample & mask
ClearLsbs(sample, lsb_bits) == sample - (sample % Pow2(lsb_bits))

\* cleared_sample | 1
Or1(cleared_sample) ==
    IF cleared_sample % 2 = 0 THEN cleared_sample + 1 ELSE cleared_sample

\* new_sample = sample ^ bit: the LSB toggled by the bit, nothing cleared
NewSampleToggled(sample, bit, lsb_bits) ==
    IF bit = 1 THEN (IF sample % 2 = 0 THEN sample + 1 ELSE sample - 1) ELSE sample

\* new_sample = cleared_sample | 1 if bit else cleared_sample
NewSample(sample, bit, lsb_bits) ==
    IF bit = 1 THEN Or1(ClearLsbs(sample, lsb_bits)) ELSE ClearLsbs(sample, lsb_bits)

\* flat_audio[sample_idx] = new_sample
WriteSample(flat, sample_idx, bit, lsb_bits) ==
    [flat EXCEPT ![sample_idx + 1] = ToInt16(NewSample(flat[sample_idx + 1], bit, lsb_bits))]

\* one pass of either embedding loop.  Indexing past the end raises
\* IndexError and ends the loop (ok = FALSE).
EmbedStep(acc, sample_idx, bit, lsb_bits) ==
    IF ~acc.ok THEN acc
    ELSE IF sample_idx >= Len(acc.flat) THEN [acc EXCEPT !.ok = FALSE]
    ELSE [acc EXCEPT !.flat = WriteSample(acc.flat, sample_idx, bit, lsb_bits)]

\* for i, bit in enumerate(bits): the passes lo..hi in order, pass i writing
\* bits[i] at the sample index idx[i] (EmbedRest has the buffer computed
\* before the next passes, and skips them after an IndexError)
RECURSIVE EmbedLoop(_, _, _, _, _, _)
EmbedRest(left, bits, idx, lsb_bits, lo, hi) ==
    IF left.ok THEN EmbedLoop(left, bits, idx, lsb_bits, lo, hi) ELSE left

EmbedLoop(acc, bits, idx, lsb_bits, lo, hi) ==
    IF lo > hi THEN acc
    ELSE IF lo = hi THEN EmbedStep(acc, idx[lo], bits[lo], lsb_bits)
    ELSE EmbedRest(EmbedLoop(acc, bits, idx, lsb_bits, lo, (lo + hi) \div 2),
                   bits, idx, lsb_bits, ((lo + hi) \div 2) + 1, hi)

\* sample_idx of the header loop: i
HeaderSites == Seq1([k \in 1..(header_size * 8) |-> k - 1], header_size * 8)

\* sample_idx of a payload loop that counts from the start of the buffer
PayloadSitesFromStart(count, scatter, payload_indices) ==
    Seq1([k \in 1..count |-> IF scatter THEN payload_indices[k] ELSE k - 1], count)

\* sample_idx of the payload loop: header_size * 8 + payload_indices[i] with
\* scatter, header_size * 8 + i without
PayloadSites(count, scatter, payload_indices) ==
    Seq1([k \in 1..count |->
            header_size * 8 + (IF scatter THEN payload_indices[k] ELSE k - 1)], count)

(***************************************************************************)
(* embed_message.  Its result is ok and the returned array, or the error;  *)
(* caller is the content of the caller's array object when the call ends,  *)
(* sites the sample indices the two loops wrote to, in order.              *)
(***************************************************************************)
\* except Exception as e: raise StegoError(f"Failed to embed message: {str(e)}")
EmbedFailed(e, audio_data, flat) ==
    [ok |-> FALSE, error |-> Wrap("Failed to embed message", e),
     caller |-> IF flat.view THEN flat.data ELSE audio_data.data]

\* lines 143-146: reshape and return
EmbedReturn(audio_data, flat, sites, done) ==
    IF ~done.ok
    THEN EmbedFailed(Raise("IndexError", "index out of bounds"), audio_data,
                     [flat EXCEPT !.data = done.flat])
    ELSE [ok |-> TRUE,
          audio |-> Reshape(done.flat, audio_data.shape),
          caller |-> IF flat.view THEN done.flat ELSE audio_data.data,
          sites |-> HeaderSites \o sites]

\* lines 122-141: the payload loop over the sample indices sites
EmbedPayloadBits(audio_data, flat, afterHeader, payload_data_bits, sites, lsb_bits) ==
    EmbedReturn(audio_data, flat, sites,
                EmbedLoop(afterHeader, payload_data_bits, sites, lsb_bits,
                          1, Len(payload_data_bits)))

\* lines 116-120: the scatter indices, when scatter is set
EmbedScatter(audio_data, flat, afterHeader, payload_data_bits, scattered, lsb_bits, scatter) ==
    IF ~afterHeader.ok
    THEN EmbedFailed(Raise("IndexError", "index out of bounds"), audio_data,
                     [flat EXCEPT !.data = afterHeader.flat])
    ELSE IF ~scattered.ok
    THEN EmbedFailed(scattered, audio_data, [flat EXCEPT !.data = afterHeader.flat])
    ELSE EmbedPayloadBits(audio_data, flat, afterHeader, payload_data_bits,
                          PayloadSites(Len(payload_data_bits), scatter, scattered.indices),
                          lsb_bits)

\* the header written from the last header sample down when scatter is set
EmbedBitsHeaderByScatter(audio_data, flat, payload_bits, salt, lsb_bits, scatter) ==
    EmbedScatter(audio_data, flat,
                 EmbedLoop([ok |-> TRUE, flat |-> flat.data],
                           SubSeq(payload_bits, 1, header_size * 8),
                           IF scatter
                           THEN Seq1([k \in 1..(header_size * 8) |-> header_size * 8 - k],
                                     header_size * 8)
                           ELSE HeaderSites,
                           lsb_bits, 1, header_size * 8),
                 SubSeq(payload_bits, header_size * 8 + 1, Len(payload_bits)),
                 IF scatter
                 THEN generate_scatter_indices(Len(payload_bits) - header_size * 8,
                                               Size(audio_data) - header_size * 8, salt)
                 ELSE [ok |-> TRUE, indices |-> <<>>],
                 lsb_bits, scatter)

\* lines 96-120: the header loop, always sequential
EmbedBits(audio_data, flat, payload_bits, salt, lsb_bits, scatter) ==
    EmbedScatter(audio_data, flat,
                 EmbedLoop([ok |-> TRUE, flat |-> flat.data],
                           SubSeq(payload_bits, 1, header_size * 8),
                           HeaderSites, lsb_bits, 1, header_size * 8),
                 SubSeq(payload_bits, header_size * 8 + 1, Len(payload_bits)),
                 IF scatter
                 THEN generate_scatter_indices(Len(payload_bits) - header_size * 8,
                                               Size(audio_data) - header_size * 8, salt)
                 ELSE [ok |-> TRUE, indices |-> <<>>],
                 lsb_bits, scatter)

\* lines 81-94: the capacity check and the working copy
EmbedChecked(audio_data, payload, salt, lsb_bits, scatter) ==
    IF Len(payload) * 8 > Size(audio_data) * lsb_bits
    THEN EmbedFailed(StegoError(<<"Insufficient capacity">>,
                                <<Len(payload) * 8, Size(audio_data) * lsb_bits>>),
                     audio_data, [data |-> audio_data.data, view |-> FALSE])
    ELSE EmbedBits(audio_data, FlatCopy(audio_data), bytes_to_bits(payload),
                   salt, lsb_bits, scatter)

embed_message(audio_data, encrypted_data, salt, nonce, lsb_bits, scatter) ==
    EmbedChecked(audio_data,
                 create_header(salt, nonce, Len(encrypted_data), lsb_bits, scatter)
                 \o encrypted_data,
                 salt, lsb_bits, scatter)

(***************************************************************************)
(* extract_message                                                         *)
(***************************************************************************)
\* bit = sample & 1 of the samples at the indices idx, in order
ReadBits(flat, idx) == Seq1([k \in 1..Len(idx) |-> flat[idx[k] + 1] % 2], Len(idx))

\* except Exception as e: raise StegoError(f"Failed to extract message: {str(e)}")
\* top is the highest sample index the call read, -1 when it read none;
\* sites, in a result that is ok, the sample indices read, in order
ExtractFailed(e, top) ==
    [ok |-> FALSE, error |-> Wrap("Failed to extract message", e), top |-> top]

\* the largest of a non-empty set of integers
MaxOf(S) == CHOOSE m \in S : \A x \in S : x <= m

\* lines 202-222: the payload read at the sample indices sites, each one
\* compared with len(flat_audio) before it is read
ExtractRead(flat_audio, header_info, sites) ==
    IF \E k \in 1..Len(sites) : sites[k] >= Len(flat_audio)
    THEN ExtractFailed(StegoError(<<"Audio file too short for complete message">>, <<>>),
                       MaxOf({header_size * 8 - 1}
                             \cup {sites[k] : k \in {j \in 1..Len(sites) :
                                     \A i \in 1..j : sites[i] < Len(flat_audio)}}))
    ELSE [ok |-> TRUE,
          encrypted_data |-> bits_to_bytes(ReadBits(flat_audio, sites)),
          salt |-> header_info.salt,
          nonce |-> header_info.nonce,
          top |-> MaxOf({header_size * 8 - 1} \cup {sites[k] : k \in 1..Len(sites)}),
          sites |-> HeaderSites \o sites]

\* lines 196-200: the scatter indices of the payload
ExtractScattered(flat_audio, header_info, scattered) ==
    IF ~scattered.ok THEN ExtractFailed(scattered, header_size * 8 - 1)
    ELSE ExtractRead(flat_audio, header_info,
                     PayloadSites(header_info.payload_length * 8, TRUE, scattered.indices))

\* lines 211-217 without the comparison of lines 213-214
ExtractSequentialUnchecked(flat_audio, header_info) ==
    IF header_info.payload_length > (Len(flat_audio) - header_size * 8) \div 8
    THEN ExtractFailed(Raise("IndexError", "index out of bounds"), Len(flat_audio))
    ELSE ExtractRead(flat_audio, header_info,
                     PayloadSites(header_info.payload_length * 8, FALSE, <<>>))

\* the payload read from the last samples of the buffer instead of the
\* samples after the header
ExtractSequentialFromEnd(flat_audio, header_info) ==
    IF header_info.payload_length > (Len(flat_audio) - header_size * 8) \div 8
    THEN ExtractFailed(StegoError(<<"Audio file too short for complete message">>, <<>>),
                       Len(flat_audio) - 1)
    ELSE ExtractRead(flat_audio, header_info,
                     Seq1([k \in 1..(header_info.payload_length * 8) |->
                             Len(flat_audio) - header_info.payload_length * 8 + k - 1],
                          header_info.payload_length * 8))

\* lines 211-217: the payload read sequentially; when the payload does not
\* fit, the loop reads every sample up to the last and then raises
ExtractSequential(flat_audio, header_info) ==
    IF header_info.payload_length > (Len(flat_audio) - header_size * 8) \div 8
    THEN ExtractFailed(StegoError(<<"Audio file too short for complete message">>, <<>>),
                       Len(flat_audio) - 1)
    ELSE ExtractRead(flat_audio, header_info,
                     PayloadSites(header_info.payload_length * 8, FALSE, <<>>))

\* the payload, its scatter indices drawn over the whole buffer instead of
\* the samples after the header
ExtractPayloadWholeBuffer(flat_audio, header_info) ==
    IF ~header_info.ok THEN ExtractFailed(header_info, header_size * 8 - 1)
    ELSE IF header_info.scatter
    THEN ExtractScattered(flat_audio, header_info,
                          generate_scatter_indices(header_info.payload_length * 8,
                                                   Len(flat_audio),
                                                   header_info.salt))
    ELSE ExtractSequential(flat_audio, header_info)

\* lines 183-217: the payload, scattered or sequential as the header says
ExtractPayload(flat_audio, header_info) ==
    IF ~header_info.ok THEN ExtractFailed(header_info, header_size * 8 - 1)
    ELSE IF header_info.scatter
    THEN ExtractScattered(flat_audio, header_info,
                          generate_scatter_indices(header_info.payload_length * 8,
                                                   Len(flat_audio) - header_size * 8,
                                                   header_info.salt))
    ELSE ExtractSequential(flat_audio, header_info)

\* line 163, audio_data.flatten(): the samples in one dimension
Flatten(audio_data) == audio_data.data

\* lines 166-181: the header, read sequentially and parsed
ExtractHeader(flat_audio) ==
    IF Len(flat_audio) < header_size * 8
    THEN ExtractFailed(StegoError(<<"Audio file too short for header">>, <<>>),
                       Len(flat_audio) - 1)
    ELSE ExtractPayload(flat_audio, parse_header(bits_to_bytes(ReadBits(flat_audio, HeaderSites))))

extract_message(audio_data) == ExtractHeader(Flatten(audio_data))

(***************************************************************************)
(* src/services/crypto.py.  A str is the list of its code points.          *)
(* PBKDF2-HMAC-SHA256 and AES-256-GCM are library code, modelled as an     *)
(* ideal key derivation (a hash of password and salt, distinct on the      *)
(* inputs of the model) and an ideal AEAD: a stream cipher keyed by key    *)
(* and nonce with a 16-byte tag over key, nonce and ciphertext that every  *)
(* single-bit change of the ciphertext changes.                            *)
(***************************************************************************)
\* self.salt_length
salt_length == 16

\* self.nonce_length
nonce_length == 12

\* the length of the GCM tag
TagLength == 16

\* the UTF-8 bytes of one code point below 0x10000
Utf8Char(c) ==
    IF c < 128 THEN <<c>>
    ELSE IF c < 2048 THEN <<192 + (c \div 64), 128 + (c % 64)>>
    ELSE <<224 + (c \div 4096), 128 + ((c \div 64) % 64), 128 + (c % 64)>>

\* str.encode('utf-8')
RECURSIVE Utf8Encode(_)
Utf8Encode(str) ==
    IF str = <<>> THEN <<>> ELSE Utf8Char(Head(str)) \o Utf8Encode(Tail(str))

IsCont(b) == b >= 128 /\ b < 192

\* bytes.decode('utf-8'): the code points, or UnicodeDecodeError
RECURSIVE Utf8Decode(_)
Utf8Decode(b) ==
    LET bad == Raise("UnicodeDecodeError", "invalid utf-8")
        Rest(n, c) ==
            LET r == Utf8Decode(SubSeq(b, n + 1, Len(b)))
            IN  IF r.ok THEN [ok |-> TRUE, str |-> <<c>> \o r.str] ELSE r
    IN  IF b = <<>> THEN [ok |-> TRUE, str |-> <<>>]
        ELSE IF b[1] < 128 THEN Rest(1, b[1])
        ELSE IF b[1] >= 194 /\ b[1] < 224
        THEN IF Len(b) >= 2 /\ IsCont(b[2])
             THEN Rest(2, (b[1] - 192) * 64 + (b[2] - 128))
             ELSE bad
        ELSE IF b[1] >= 224 /\ b[1] < 240
        THEN IF /\ Len(b) >= 3 /\ IsCont(b[2]) /\ IsCont(b[3])
                /\ (b[1] - 224) * 4096 + (b[2] - 128) * 64 >= 2048
                /\ ~((b[1] - 224) * 4096 + (b[2] - 128) * 64 \in 55296..57343)
             THEN Rest(3, (b[1] - 224) * 4096 + (b[2] - 128) * 64 + (b[3] - 128))
             ELSE bad
        ELSE bad

\* a key derived from the salt alone
derive_key_salt_only(password, salt) == HashFold(11, salt, 1)

\* _derive_key: PBKDF2HMAC(SHA256, 32, salt, 200000).derive(password.encode('utf-8'))
derive_key(password, salt) ==
    HashFold(HashFold(11, Utf8Encode(password), 1), salt, 1)

RECURSIVE SumBytes(_, _)
SumBytes(data, i) == IF i > Len(data) THEN 0 ELSE data[i] + SumBytes(data, i + 1)

\* the key stream byte at position i of the cipher keyed by key and nonce
KeyStream(key, nonce, i) == (key + (key \div 256) + 7 * SumBytes(nonce, 1) + 13 * i) % 256

\* the polynomial part of the tag: an odd multiple of every ciphertext byte
RECURSIVE MacFold(_, _)
MacFold(ct, i) ==
    IF i > Len(ct) THEN 0 ELSE ((2 * i + 1) * ct[i] + MacFold(ct, i + 1)) % 256

\* the 16 tag bytes over key, nonce and ciphertext
GcmTag(key, nonce, ct) ==
    Seq1([j \in 1..TagLength |->
            ((IF j % 2 = 1 THEN key % 256 ELSE (key \div 256))
             + 3 * SumBytes(nonce, 1) + Len(ct) + j + MacFold(ct, 1)) % 256], TagLength)

\* the stream cipher: byte i of data ^ key stream byte i
StreamXor(key, nonce, data) ==
    Seq1([i \in 1..Len(data) |-> Xor(data[i], KeyStream(key, nonce, i))], Len(data))

\* ciphertext || tag
WithTag(key, nonce, ct) == ct \o GcmTag(key, nonce, ct)

\* AESGCM(key).encrypt(nonce, data, None): ciphertext with the tag appended
AESGCM_encrypt(key, nonce, data) == WithTag(key, nonce, StreamXor(key, nonce, data))

\* AESGCM(key).decrypt(nonce, data, None): the plaintext, or InvalidTag
AESGCM_decrypt(key, nonce, data) ==
    IF Len(data) < TagLength THEN Raise("InvalidTag", "")
    ELSE IF SubSeq(data, Len(data) - TagLength + 1, Len(data))
            # GcmTag(key, nonce, SubSeq(data, 1, Len(data) - TagLength))
    THEN Raise("InvalidTag", "")
    ELSE [ok |-> TRUE,
          data |-> StreamXor(key, nonce, SubSeq(data, 1, Len(data) - TagLength))]

\* encrypt_message, with the salt and nonce os.urandom returned
encrypt_message(message, password, salt, nonce) ==
    [ok |-> TRUE,
     encrypted_data |-> AESGCM_encrypt(derive_key(password, salt), nonce, Utf8Encode(message)),
     salt |-> salt,
     nonce |-> nonce]

\* message = decrypted_bytes.decode('utf-8'), and except UnicodeDecodeError
DecodeText(message) ==
    IF ~message.ok
    THEN [ok |-> FALSE,
          error |-> StegoError(<<"Decryption failed: Invalid message encoding">>, <<>>)]
    ELSE [ok |-> TRUE, message |-> message.str]

\* except InvalidTag
Decrypted(decrypted) ==
    IF ~decrypted.ok
    THEN [ok |-> FALSE,
          error |-> StegoError(<<"Decryption failed: Invalid password or corrupted data">>,
                               <<>>)]
    ELSE DecodeText(Utf8Decode(decrypted.data))

\* decryption that strips the tag without verifying it
decrypt_message_unauthenticated(encrypted_data, password, salt, nonce) ==
    IF Len(encrypted_data) < TagLength THEN Decrypted(Raise("InvalidTag", ""))
    ELSE DecodeText(Utf8Decode(StreamXor(derive_key(password, salt), nonce,
                                         SubSeq(encrypted_data, 1,
                                                Len(encrypted_data) - TagLength))))

\* decryption that tells a wrong key from altered data: the difference of
\* the first two tag bytes depends on the key alone
decrypt_message_key_check(encrypted_data, password, salt, nonce) ==
    IF /\ Len(encrypted_data) >= TagLength
       /\ \E key \in {derive_key(password, salt)} :
             (encrypted_data[Len(encrypted_data) - TagLength + 1]
              - encrypted_data[Len(encrypted_data) - TagLength + 2] + 256) % 256
             # ((key % 256) - ((key \div 256) % 256) - 1 + 512) % 256
    THEN [ok |-> FALSE, error |-> StegoError(<<"Decryption failed: Invalid password">>, <<>>)]
    ELSE Decrypted(AESGCM_decrypt(derive_key(password, salt), nonce, encrypted_data))

\* decrypt_message: the message, or the StegoError of the except clause taken
decrypt_message(encrypted_data, password, salt, nonce) ==
    Decrypted(AESGCM_decrypt(derive_key(password, salt), nonce, encrypted_data))

\* calculate_encrypted_size: len(message_bytes) + 16
calculate_encrypted_size(message) == Len(Utf8Encode(message)) + 16

(***************************************************************************)
(* src/tabs_decode.py: decode_worker.  stego is the array load_audio       *)
(* returned; the outcome carries what decoding_complete is called with and *)
(* calls, the service operations the worker started, in order.             *)
(***************************************************************************)
\* lines 171-179: decrypt, then decoding_complete(message, None) or (None, str(e))
DecodeDecrypted(decrypted) ==
    IF ~decrypted.ok
    THEN [ok |-> FALSE, error |-> decrypted.error,
          calls |-> <<"extract_message", "decrypt_message", "_derive_key">>]
    ELSE [ok |-> TRUE, message |-> decrypted.message,
          calls |-> <<"extract_message", "decrypt_message", "_derive_key">>]

\* lines 167-173: what follows extract_message
DecodeExtracted(extracted, password) ==
    IF ~extracted.ok
    THEN [ok |-> FALSE, error |-> extracted.error, calls |-> <<"extract_message">>]
    ELSE DecodeDecrypted(decrypt_message(extracted.encrypted_data, password,
                                         extracted.salt, extracted.nonce))

decode_worker(stego, password) == DecodeExtracted(extract_message(stego), password)

(***************************************************************************)
(* Inputs of the model                                                     *)
(***************************************************************************)
\* how many bytes of room beyond the smallest ciphertext the buffers have
MaxSlack == 1

\* the longest message, in UTF-8 bytes
MaxMsgBytes == 2

\* Sample counts around the three thresholds of embed_message for a
\* ciphertext of TagLength + k bytes: one sample per bit (8 per byte), two
\* bits per sample (4 per byte), and the header alone plus a few samples.
SampleCounts ==
    UNION {{8 * (header_size + TagLength + k), 4 * (header_size + TagLength + k),
            8 * (header_size + 1 + k)} : k \in 0..MaxSlack}

\* sample values at the start of every buffer: the extremes of int16
Extremes == <<-32768, 32767, -1, 0, 1, -2, 2, 3>>

\* Buffer b with n samples: 1 is mono, 2 is stereo (n/2 frames of 2 channels)
Buffer(n, b) ==
    [shape |-> IF b = 1 THEN <<n>> ELSE <<n \div 2, 2>>,
     data |-> Seq1([k \in 1..n |->
                      IF k <= Len(Extremes) THEN Extremes[k]
                      ELSE ToInt16(k * (7919 + 2 * b))], n)]

Buffers == {1, 2}

\* "A" and "e with acute accent": one and two UTF-8 bytes
Alphabet == {65, 233}

Messages ==
    {m \in UNION {[1..n -> Alphabet] : n \in 0..MaxMsgBytes} :
        Len(Utf8Encode(m)) <= MaxMsgBytes}

\* "p" and "q"
Passwords == {<<112>>, <<113>>}

\* what os.urandom(16) may return
Salts == {Seq1([k \in 1..salt_length |-> (k * 37) % 256], salt_length),
          Seq1([k \in 1..salt_length |-> (k * 91 + 5) % 256], salt_length)}

\* what os.urandom(12) may return
Nonces == {Seq1([k \in 1..nonce_length |-> (k * 53 + 1) % 256], nonce_length)}

LsbChoices == {1, 2}

(***************************************************************************)
(* State                                                                   *)
(***************************************************************************)
VARIABLES
    pc,        \* where the session is
    orig,      \* the samples the caller's array held when the session began
    audio,     \* the caller's array object, now
    args,      \* message, password, lsb_bits, scatter of the encode call
    enc,       \* what encrypt_message returned
    emb,       \* what embed_message returned or raised
    stego,     \* the array handed to the decoder
    flipped,   \* the sample index whose LSB was flipped after the embed, or -1
    dec,       \* the outcome of decode_worker
    cap,       \* what calculate_capacity returned
    hdr,       \* the header bytes under test and what _parse_header returned
    scat,      \* the module-level generator of random, and the first and the
               \* latest call of _generate_scatter_indices with their results
    svc,       \* the fields of the StegoService instance
    ui         \* a tab: its busy flag, widgets, worker thread and event queue

vars == <<pc, orig, audio, args, enc, emb, stego, flipped, dec, cap, hdr, scat, svc, ui>>

None == [none |-> TRUE]

\* StegoService.__init__: the fields of a new instance
StegoService ==
    [audio_service |-> [current_playback |-> None],
     magic_bytes |-> magic_bytes,
     version |-> version,
     header_size |-> header_size]

InitOver(Counts, Bufs) ==
    /\ pc = "idle"
    /\ \E n \in Counts, b \in Bufs : orig = Buffer(n, b)
    /\ audio = orig
    /\ args = None
    /\ enc = None
    /\ emb = None
    /\ stego = None
    /\ flipped = -1
    /\ dec = None
    /\ cap = None
    /\ hdr = None
    /\ scat = None
    /\ svc = StegoService
    /\ ui = None

\* crypto_service.encrypt_message(message, password)
EncryptOver(Msgs, Pwds, SaltSet) ==
    /\ pc = "idle"
    /\ \E message \in Msgs, password \in Pwds, salt \in SaltSet, nonce \in Nonces :
          /\ enc' = encrypt_message(message, password, salt, nonce)
          /\ args' = [message |-> message, password |-> password]
    /\ pc' = "encrypted"
    /\ UNCHANGED <<orig, audio, emb, stego, flipped, dec, cap, hdr, scat, svc, ui>>

\* stego_service.embed_message(audio_data, encrypted_data, salt, nonce, lsb_bits, scatter)
Embed ==
    /\ pc = "encrypted"
    /\ \E lsb_bits \in LsbChoices, scatter \in BOOLEAN :
          \E r \in {embed_message(audio, enc.encrypted_data, enc.salt, enc.nonce,
                                  lsb_bits, scatter)} :
              /\ args' = args @@ [lsb_bits |-> lsb_bits, scatter |-> scatter]
              /\ audio' = [audio EXCEPT !.data = r.caller]
              /\ emb' = IF r.ok THEN [ok |-> TRUE, audio |-> r.audio, sites |-> r.sites]
                        ELSE [ok |-> FALSE, error |-> r.error]
              /\ stego' = IF r.ok THEN r.audio ELSE None
              /\ pc' = IF r.ok THEN "embedded" ELSE "embed_failed"
    /\ UNCHANGED <<orig, enc, flipped, dec, cap, hdr, scat, svc, ui>>

\* the LSB of one sample of the encoded buffer is flipped before it is decoded
FlipLsb(sample) == IF sample % 2 = 0 THEN sample + 1 ELSE sample - 1

\* the samples that carry the header's CRC field or a ciphertext bit
TamperSites == {emb.sites[k] : k \in (8 * (header_size - 4) + 1)..Len(emb.sites)}

Tamper ==
    /\ pc = "embedded"
    /\ flipped = -1
    /\ \E i \in TamperSites :
          /\ stego' = [stego EXCEPT !.data[i + 1] = FlipLsb(@)]
          /\ flipped' = i
    /\ UNCHANGED <<pc, orig, audio, args, enc, emb, dec, cap, hdr, scat, svc, ui>>

\* decode_worker(input_file, password) on the encoded buffer
DecodeOver(Pwds) ==
    /\ pc = "embedded"
    /\ \E password \in Pwds :
          dec' = decode_worker(stego, password) @@ [password |-> password]
    /\ pc' = "decoded"
    /\ UNCHANGED <<orig, audio, args, enc, emb, stego, flipped, cap, hdr, scat, svc, ui>>

Encrypt == EncryptOver(Messages, Passwords, Salts)

Decode == DecodeOver(Passwords)

Init == InitOver(SampleCounts, Buffers)

Next == Encrypt \/ Embed \/ Decode

Spec == Init /\ [][Next]_vars

(***************************************************************************)
(* Tampering: one buffer, one message, every sample that carries a CRC or  *)
(* ciphertext bit flipped in turn, decoded with the password of the encode *)
(* and with another one.                                                   *)
(***************************************************************************)
TamperCount == 8 * (header_size + TagLength + 1)

InitTamper == InitOver({TamperCount}, {1})

EncryptTamper == EncryptOver({<<65>>}, {<<112>>}, Salts)

DecodeTamper == DecodeOver(Passwords)

NextTamper == EncryptTamper \/ Embed \/ Tamper \/ DecodeTamper

SpecTamper == InitTamper /\ [][NextTamper]_vars

(***************************************************************************)
(* calculate_capacity on its own: every sample count up to MaxCapSamples   *)
(* and 100000, mono and stereo, and a file load_audio cannot read.         *)
(***************************************************************************)
MaxCapSamples == 480

CapacityCounts == (0..MaxCapSamples) \cup {100000}

\* what audio_service.load_audio may return or raise
LoadedAudio ==
    {[ok |-> TRUE, audio_data |-> [shape |-> <<n>>]] : n \in CapacityCounts}
    \cup {[ok |-> TRUE, audio_data |-> [shape |-> <<n \div 2, 2>>]] :
            n \in {m \in CapacityCounts : m % 2 = 0}}
    \cup {StegoError(<<"Failed to load audio file">>, <<>>)}

\* no buffer, no session: the operation is applied to its inputs alone
InitBare ==
    /\ pc = "idle"
    /\ orig = None
    /\ audio = None
    /\ args = None
    /\ enc = None
    /\ emb = None
    /\ stego = None
    /\ flipped = -1
    /\ dec = None
    /\ cap = None
    /\ hdr = None
    /\ scat = None
    /\ svc = StegoService
    /\ ui = None

InitCapacity == InitBare

\* stego_service.calculate_capacity(file_path, lsb_bits)
Capacity ==
    /\ pc = "idle"
    /\ \E loaded \in LoadedAudio, lsb_bits \in LsbChoices :
          cap' = [loaded |-> loaded, lsb_bits |-> lsb_bits,
                  result |-> calculate_capacity(loaded, lsb_bits)]
    /\ pc' = "measured"
    /\ UNCHANGED <<orig, audio, args, enc, emb, stego, flipped, dec, hdr, scat, svc, ui>>

NextCapacity == Capacity

SpecCapacity == InitCapacity /\ [][NextCapacity]_vars

(***************************************************************************)
(* _parse_header on its own: 42 bytes laid out as _create_header lays them *)
(* out, with any magic, version and flags byte, and the CRC-32 either the  *)
(* one of the 38 bytes before it or with its last bit flipped.             *)
(***************************************************************************)
\* the largest flags byte tried
MaxFlags == 7

Magics == {magic_bytes, <<65, 83, 84, 72>>}

Versions == {0, version, version + 1}

PayloadLengths == {0, 17, 65536 + 258}

\* the header bytes of the given fields, CRC-32 appended
RawHeader(magic, ver, flags, salt, nonce, payload_length) ==
    AppendCrc(magic \o <<ver, flags>> \o salt \o nonce \o PackU32(U32(payload_length)))

\* the byte strings tried for 38 bytes of fields: the 42-byte header, the
\* header without its last byte, and 43 bytes that end in the CRC-32 of the
\* 39 bytes before it
HeaderShapes(fields) ==
    {AppendCrc(fields),
     SubSeq(AppendCrc(fields), 1, header_size - 1),
     AppendCrc(fields \o <<0>>)}

\* the last bit of the CRC field flipped
FlipLastBit(h) == [h EXCEPT ![Len(h)] = Xor(@, 1)]

InitHeader == InitBare

\* stego_service._parse_header(header_bytes)
ParseHeader ==
    /\ pc = "idle"
    /\ \E magic \in Magics, ver \in Versions, flags \in 0..MaxFlags,
          salt \in Salts, nonce \in Nonces, payload_length \in PayloadLengths,
          damaged \in BOOLEAN :
          \E h \in HeaderShapes(magic \o <<ver, flags>> \o salt \o nonce
                                \o PackU32(U32(payload_length))) :
             \E header_bytes \in {IF damaged THEN FlipLastBit(h) ELSE h} :
                hdr' = [header_bytes |-> header_bytes,
                        result |-> parse_header(header_bytes)]
    /\ pc' = "parsed"
    /\ UNCHANGED <<orig, audio, args, enc, emb, stego, flipped, dec, cap, scat, svc, ui>>

NextHeader == ParseHeader

SpecHeader == InitHeader /\ [][NextHeader]_vars

(***************************************************************************)
(* _create_header and _parse_header of what it returns.                    *)
(***************************************************************************)
\* the largest lsb_bits argument tried
MaxLsbArg == 4

\* payload lengths at the byte boundaries of the 4-byte field
CodecLengths == {0, 1, 255, 256, 65535, 65536, 16777216 + 515, 2147483647}

CodecSalts == Salts \cup {Seq1([k \in 1..salt_length |-> 255], salt_length)}

CodecNonces == Nonces \cup {Seq1([k \in 1..nonce_length |-> 0], nonce_length)}

InitCodec == InitBare

\* header = self._create_header(...); self._parse_header(header)
CreateHeader ==
    /\ pc = "idle"
    /\ \E salt \in CodecSalts, nonce \in CodecNonces, payload_length \in CodecLengths,
          lsb_bits \in 0..MaxLsbArg, scatter \in BOOLEAN :
          \E header \in {create_header(salt, nonce, payload_length, lsb_bits, scatter)} :
             hdr' = [salt |-> salt, nonce |-> nonce, payload_length |-> payload_length,
                     lsb_bits |-> lsb_bits, scatter |-> scatter,
                     header_bytes |-> header,
                     result |-> parse_header(header)]
    /\ pc' = "created"
    /\ UNCHANGED <<orig, audio, args, enc, emb, stego, flipped, dec, cap, scat, svc, ui>>

NextCodec == CreateHeader

SpecCodec == InitCodec /\ [][NextCodec]_vars

(***************************************************************************)
(* _generate_scatter_indices on its own: any number of calls, of which the *)
(* first and the latest are kept with what they returned.                  *)
(***************************************************************************)
\* the largest count asked for
MaxScatterCount == 7

\* the numbers of samples available to the payload
ScatterTotals == {0, 5, 6}

InitScatter ==
    /\ pc = "idle"
    /\ orig = None
    /\ audio = None
    /\ args = None
    /\ enc = None
    /\ emb = None
    /\ stego = None
    /\ flipped = -1
    /\ dec = None
    /\ cap = None
    /\ hdr = None
    /\ scat = [module_rng |-> 1, first |-> None, last |-> None]
    /\ svc = StegoService
    /\ ui = None

\* self._generate_scatter_indices(count, total_samples, salt)
ScatterCall ==
    /\ pc \in {"idle", "scattered"}
    /\ \E count \in 0..MaxScatterCount, total_samples \in ScatterTotals, salt \in Salts :
          \E r \in {scatter_call(count, total_samples, salt, scat.module_rng)} :
             \E call \in {[count |-> count, total_samples |-> total_samples,
                           salt |-> salt, result |-> r.result]} :
                scat' = [module_rng |-> r.module_rng,
                         first |-> IF scat.first = None THEN call ELSE scat.first,
                         last |-> call]
    /\ pc' = "scattered"
    /\ UNCHANGED <<orig, audio, args, enc, emb, stego, flipped, dec, cap, hdr, svc, ui>>

NextScatter == ScatterCall

SpecScatter == InitScatter /\ [][NextScatter]_vars

(***************************************************************************)
(* extract_message on its own, on buffers no embed produced: empty, too    *)
(* short for a header, without a header, or with a header whose payload    *)
(* length is more than the samples behind it can hold.                     *)
(***************************************************************************)
\* the largest payload, in bytes, the buffers have room for
MaxExtractBytes == 3

ExtractCounts ==
    {0, 1, 8 * header_size - 1}
    \cup {8 * header_size + 8 * j + d : j \in 0..MaxExtractBytes, d \in {0, 7}}

ExtractLengths == (0..(MaxExtractBytes + 1)) \cup {65536 + 258}

\* n samples whose LSBs are the bits of header_bytes, as far as both reach;
\* the samples after them are those of Buffer
CarrierOf(n, header_bits) ==
    [shape |-> <<n>>,
     data |-> Seq1([k \in 1..n |->
                      IF k <= Len(header_bits) THEN 2 * k + header_bits[k]
                      ELSE ToInt16(k * 7919)], n)]

Carrier(n, header_bytes) == CarrierOf(n, bytes_to_bits(header_bytes))

\* the headers a buffer may carry: none, or one of _create_header
CarriedHeaders ==
    {<<>>}
    \cup {create_header(salt, nonce, payload_length, lsb_bits, scatter) :
            salt \in Salts, nonce \in Nonces, payload_length \in ExtractLengths,
            lsb_bits \in LsbChoices, scatter \in BOOLEAN}

InitExtract == InitBare

\* stego_service.extract_message(audio_data)
Extract ==
    /\ pc = "idle"
    /\ \E n \in ExtractCounts, header_bytes \in CarriedHeaders :
          \E audio_data \in {Carrier(n, header_bytes)} :
             /\ stego' = audio_data
             /\ dec' = extract_message(audio_data)
    /\ pc' = "extracted"
    /\ UNCHANGED <<orig, audio, args, enc, emb, flipped, cap, hdr, scat, svc, ui>>

NextExtract == Extract

SpecExtract == InitExtract /\ [][NextExtract]_vars

(***************************************************************************)
(* The bit packer alone: bytes_to_bits, then bits_to_bytes on its result,  *)
(* for the empty sequence, every single byte, and longer sequences over a  *)
(* few byte values; and bits_to_bytes on bit lists of every length.        *)
(***************************************************************************)
\* the longest byte sequence packed
MaxPackLen == 2

\* the empty sequence, every byte, and longer sequences over the extremes,
\* single bits and alternating bits
PackInputs ==
    {<<>>} \cup {<<b>> : b \in 0..255}
    \cup UNION {[1..n -> {0, 1, 128, 170, 254, 255}] : n \in 2..MaxPackLen}

InitPack == InitBare

\* BitPacker.bits_to_bytes(BitPacker.bytes_to_bits(data))
Pack ==
    /\ pc = "idle"
    /\ \E data \in PackInputs :
          \E bits \in {bytes_to_bits(data)} :
             hdr' = [data |-> data, bits |-> bits, bytes_data |-> bits_to_bytes(bits)]
    /\ pc' = "packed"
    /\ UNCHANGED <<orig, audio, args, enc, emb, stego, flipped, dec, cap, scat, svc, ui>>

\* the longest bit list handed to bits_to_bytes on its own
MaxBitLen == 9

\* BitPacker.bits_to_bytes(bits) on a list of the caller: caller is that list
\* object when the call has returned, after the bits.append(0) of the while
\* loop
ToBytes ==
    /\ pc = "idle"
    /\ \E n \in 0..MaxBitLen :
          \E bits \in [1..n -> {0, 1}] :
             hdr' = [bits |-> bits, caller |-> PadBits(bits),
                     bytes_data |-> bits_to_bytes(bits)]
    /\ pc' = "converted"
    /\ UNCHANGED <<orig, audio, args, enc, emb, stego, flipped, dec, cap, scat, svc, ui>>

NextPack == Pack \/ ToBytes

SpecPack == InitPack /\ [][NextPack]_vars

(***************************************************************************)
(* One StegoService instance called again and again: calculate_capacity,   *)
(* embed_message, extract_message and _generate_scatter_indices in any     *)
(* order, calls that succeed and calls that raise.  scat keeps the first   *)
(* call and the latest one, each with its arguments and its result, and    *)
(* others, whether a call other than the first was made after it.          *)
(***************************************************************************)
\* buffers 4 samples short of a header and one payload byte, and just enough
ServiceCounts == {8 * header_size + 4, 8 * header_size + 8}

\* the one-byte payload of the embed calls
ServicePayload == <<165>>

\* the arrays handed to extract_message: without a header, and as two
\* embed calls returned them
ServiceCarriers ==
    {Buffer(8 * header_size + 8, 1)}
    \cup {embed_message(Buffer(8 * header_size + 8, 1), ServicePayload,
                        CHOOSE salt \in Salts : TRUE, CHOOSE nonce \in Nonces : TRUE,
                        1, scatter).audio : scatter \in BOOLEAN}

InitService ==
    /\ pc = "idle"
    /\ orig = None
    /\ audio = None
    /\ args = None
    /\ enc = None
    /\ emb = None
    /\ stego = None
    /\ flipped = -1
    /\ dec = None
    /\ cap = None
    /\ hdr = None
    /\ scat = [module_rng |-> 1, first |-> None, last |-> None, others |-> FALSE]
    /\ svc = StegoService
    /\ ui = None

\* a call has returned or raised: no method assigns a field of self, and
\* module_rng is the state of the module-level generator the call left
ServiceReturn(call, module_rng) ==
    /\ scat' = [module_rng |-> module_rng,
                first |-> IF scat.first = None THEN call ELSE scat.first,
                last |-> call,
                others |-> /\ scat.first # None
                           /\ \/ scat.others
                              \/ call.op # scat.first.op
                              \/ call.args # scat.first.args]
    /\ pc' = "called"
    /\ UNCHANGED <<orig, audio, args, enc, emb, stego, flipped, dec, cap, hdr, svc, ui>>

ServiceCapacity ==
    \E loaded \in {[ok |-> TRUE, audio_data |-> [shape |-> <<n>>]] : n \in ServiceCounts}
                   \cup {StegoError(<<"Failed to load audio file">>, <<>>)},
       lsb_bits \in LsbChoices :
       ServiceReturn([op |-> "calculate_capacity", args |-> <<loaded, lsb_bits>>,
                      result |-> calculate_capacity(loaded, lsb_bits)],
                     scat.module_rng)

ServiceEmbed ==
    \E n \in ServiceCounts, salt \in {CHOOSE salt \in Salts : TRUE}, nonce \in Nonces,
       lsb_bits \in LsbChoices, scatter \in BOOLEAN :
       ServiceReturn([op |-> "embed_message",
                      args |-> <<n, ServicePayload, salt, nonce, lsb_bits, scatter>>,
                      result |-> embed_message(Buffer(n, 1), ServicePayload, salt, nonce,
                                               lsb_bits, scatter)],
                     scat.module_rng)

ServiceExtract ==
    \E audio_data \in ServiceCarriers :
       ServiceReturn([op |-> "extract_message", args |-> <<audio_data>>,
                      result |-> extract_message(audio_data)],
                     scat.module_rng)

ServiceScatter ==
    \E count \in {0, 3, 6}, total_samples \in {5}, salt \in Salts :
       \E r \in {scatter_call(count, total_samples, salt, scat.module_rng)} :
          ServiceReturn([op |-> "_generate_scatter_indices",
                         args |-> <<count, total_samples, salt>>,
                         result |-> r.result],
                        r.module_rng)

NextService == ServiceCapacity \/ ServiceEmbed \/ ServiceExtract \/ ServiceScatter

SpecService == InitService /\ [][NextService]_vars

(***************************************************************************)
(* src/tabs_encode.py and src/tabs_decode.py: one tab, its worker threads   *)
(* and the Tk event loop.  ui.busy is self.encoding / self.decoding,       *)
(* ui.threads[t] the worker thread of attempt t with its position (run:    *)
(* inside try; except: inside the except clause, after the call of after,  *)
(* e still bound; return: after the last call of after; dead), ui.queue    *)
(* the callbacks frame.after(0, ...) has scheduled, run in that order by   *)
(* the event loop.  A lambda scheduled from the except clause reads e when *)
(* it runs: Python unbinds e when the clause is left, so the lambda raises *)
(* NameError unless the event loop runs it before the worker leaves the    *)
(* clause.  result is the message (the output file) of a worker that got   *)
(* one; handled and request record what became of each attempt and of the  *)
(* latest start request.                                                   *)
(***************************************************************************)
\* the most attempts started in one tab
MaxAttempts == 2

\* what a worker ends with: a result, or the str(e) of the exception caught
WorkerOutcomes(tab) ==
    IF tab = "decode"
    THEN {[ok |-> TRUE, result |-> "A"], [ok |-> TRUE, result |-> "B"],
          [ok |-> FALSE, error |-> "Decryption failed: Invalid password or corrupted data",
           hints |-> TRUE],
          [ok |-> FALSE, error |-> "Failed to extract message: Audio file too short for header",
           hints |-> FALSE]}
    ELSE {[ok |-> TRUE, result |-> "out.wav"],
          [ok |-> FALSE, error |-> "Failed to embed message: Insufficient capacity",
           hints |-> FALSE]}

InitUi ==
    /\ pc = "idle"
    /\ orig = None
    /\ audio = None
    /\ args = None
    /\ enc = None
    /\ emb = None
    /\ stego = None
    /\ flipped = -1
    /\ dec = None
    /\ cap = None
    /\ hdr = None
    /\ scat = None
    /\ svc = StegoService
    /\ \E tab \in {"encode", "decode"} :
          ui = [tab |-> tab, busy |-> FALSE, button |-> "normal",
                text |-> "", copy |-> "disabled", status |-> "Ready", dialog |-> "",
                started |-> 0,
                threads |-> [t \in 1..MaxAttempts |->
                              [pos |-> "new", handled |-> "no", result |-> ""]],
                queue |-> <<>>, request |-> "none"]

\* start_encoding / start_decoding without the test of the busy flag
start_unguarded(tab, valid) ==
    IF ~valid THEN [tab EXCEPT !.request = "rejected", !.dialog = "Error"]
    ELSE [tab EXCEPT !.text = IF tab.tab = "decode" THEN "" ELSE @,
                     !.copy = "disabled",
                     !.busy = TRUE,
                     !.button = "disabled",
                     !.status = IF tab.tab = "decode" THEN "Extracting message..."
                                ELSE "Encoding message...",
                     !.started = @ + 1,
                     !.threads[tab.started + 1].pos = "run",
                     !.request = "started"]

\* start_decoding that does not clear the message field and the copy button
start_keeping_message(tab, valid) ==
    IF tab.busy THEN [tab EXCEPT !.request = "ignored"]
    ELSE IF ~valid THEN [tab EXCEPT !.request = "rejected", !.dialog = "Error"]
    ELSE [tab EXCEPT !.busy = TRUE,
                     !.button = "disabled",
                     !.status = IF tab.tab = "decode" THEN "Extracting message..."
                                ELSE "Encoding message...",
                     !.started = @ + 1,
                     !.threads[tab.started + 1].pos = "run",
                     !.request = "started"]

\* start_encoding / start_decoding: nothing when busy, an error box when an
\* input is missing (valid: every input is there and the save dialog was
\* not cancelled), else the field cleared, the flag set, the thread started
start(tab, valid) ==
    IF tab.busy THEN [tab EXCEPT !.request = "ignored"]
    ELSE IF ~valid THEN [tab EXCEPT !.request = "rejected", !.dialog = "Error"]
    ELSE [tab EXCEPT !.text = IF tab.tab = "decode" THEN "" ELSE @,
                     !.copy = "disabled",
                     !.busy = TRUE,
                     !.button = "disabled",
                     !.status = IF tab.tab = "decode" THEN "Extracting message..."
                                ELSE "Encoding message...",
                     !.started = @ + 1,
                     !.threads[tab.started + 1].pos = "run",
                     !.request = "started"]

\* encoding_complete / decoding_complete(result, error) of attempt t
complete(tab, t, outcome) ==
    IF ~outcome.ok
    THEN [tab EXCEPT !.busy = FALSE, !.button = "normal",
                     !.status = "failed: " \o outcome.error,
                     !.dialog = IF tab.tab = "decode" /\ outcome.hints
                                THEN "Failed to decrypt the message"
                                ELSE outcome.error,
                     !.threads[t].handled = "error"]
    ELSE [tab EXCEPT !.busy = FALSE, !.button = "normal",
                     !.status = "successfully",
                     !.text = IF tab.tab = "decode" THEN outcome.result ELSE @,
                     !.copy = IF tab.tab = "decode" THEN "normal" ELSE @,
                     !.dialog = "Success",
                     !.threads[t].handled = "ok"]

\* the lambda the worker scheduled runs in the event loop
callback(tab, scheduled) ==
    IF scheduled.kind = "status" THEN [tab EXCEPT !.status = scheduled.text]
    ELSE IF scheduled.outcome.ok \/ tab.threads[scheduled.thread].pos = "except"
    THEN complete(tab, scheduled.thread, scheduled.outcome)
    ELSE [tab EXCEPT !.threads[scheduled.thread].handled = "NameError"]

\* the user asks for an attempt
Start ==
    /\ \E valid \in BOOLEAN :
          /\ valid => ui.started < MaxAttempts
          /\ ui' = start(ui, valid)
    /\ UNCHANGED <<pc, orig, audio, args, enc, emb, stego, flipped, dec, cap, hdr, scat, svc>>

\* encode_worker / decode_worker of attempt t: a status lambda and the
\* services, then the completion lambda, from the try or from the except
Worker ==
    /\ \E t \in 1..MaxAttempts :
          /\ ui.threads[t].pos = "run"
          /\ \E outcome \in WorkerOutcomes(ui.tab) :
                ui' = [ui EXCEPT !.queue = @ \o <<[kind |-> "status", text |-> "Loading audio file..."],
                                                 [kind |-> "complete", thread |-> t,
                                                  outcome |-> outcome]>>,
                                 !.threads[t].pos = IF outcome.ok THEN "return" ELSE "except",
                                 !.threads[t].result = IF outcome.ok THEN outcome.result
                                                       ELSE @]
    /\ UNCHANGED <<pc, orig, audio, args, enc, emb, stego, flipped, dec, cap, hdr, scat, svc>>

\* the worker leaves the except clause (e is unbound) or returns; the thread ends
WorkerExit ==
    /\ \E t \in 1..MaxAttempts :
          /\ ui.threads[t].pos \in {"return", "except"}
          /\ ui' = [ui EXCEPT !.threads[t].pos = "dead"]
    /\ UNCHANGED <<pc, orig, audio, args, enc, emb, stego, flipped, dec, cap, hdr, scat, svc>>

\* the event loop runs the callback scheduled first
Callback ==
    /\ ui.queue # <<>>
    /\ ui' = [callback(ui, Head(ui.queue)) EXCEPT !.queue = Tail(ui.queue)]
    /\ UNCHANGED <<pc, orig, audio, args, enc, emb, stego, flipped, dec, cap, hdr, scat, svc>>

NextUi == Start \/ Worker \/ WorkerExit \/ Callback

SpecUi == InitUi /\ [][NextUi]_vars

\* threads get to run and the event loop keeps running; the user need not act
SpecUiFair ==
    InitUi /\ [][NextUi]_vars /\ WF_vars(Worker) /\ WF_vars(WorkerExit) /\ WF_vars(Callback)

(***************************************************************************)
(* embed_message with every lsb_bits a caller can pass, 0..MaxLsbArg, on   *)
(* buffers around 8 * 43 / lsb_bits samples (where the capacity check      *)
(* passes) and around 8 * 43 samples (where the loops have room).          *)
(***************************************************************************)
AnyLsbCounts ==
    {(8 * (header_size + 1)) \div 4 - 1, (8 * (header_size + 1)) \div 4,
     (8 * (header_size + 1)) \div 3 + 1, (8 * (header_size + 1)) \div 2,
     8 * (header_size + 1) - 1, 8 * (header_size + 1), 8 * (header_size + 2)}

\* stego_service.embed_message(audio_data, encrypted_data, salt, nonce, lsb_bits, scatter)
EmbedAnyLsb ==
    /\ pc = "idle"
    /\ \E n \in AnyLsbCounts, salt \in Salts, nonce \in Nonces,
          lsb_bits \in 0..MaxLsbArg, scatter \in BOOLEAN :
          \E r \in {embed_message(Buffer(n, 1), ServicePayload, salt, nonce,
                                  lsb_bits, scatter)} :
             /\ args' = [total_samples |-> n, salt |-> salt, nonce |-> nonce,
                         lsb_bits |-> lsb_bits, scatter |-> scatter]
             /\ emb' = IF r.ok THEN [ok |-> TRUE, audio |-> r.audio, sites |-> r.sites]
                       ELSE [ok |-> FALSE, error |-> r.error]
    /\ pc' = "embedded_any"
    /\ UNCHANGED <<orig, audio, enc, stego, flipped, dec, cap, hdr, scat, svc, ui>>

SpecAnyLsb == InitBare /\ [][EmbedAnyLsb]_vars

(***************************************************************************)
(* The properties                                                          *)
(***************************************************************************)
\* computeCapacity(totalSamples, lsbBits) as the specification writes it
computeCapacity(totalSamples, lsbBits) ==
    IF (totalSamples * lsbBits) \div 8 >= header_size
    THEN ((totalSamples * lsbBits) \div 8) - header_size
    ELSE 0

\* embed_message was called, and has returned or raised
Embedded == pc \in {"embedded", "embed_failed", "decoded"}

\* the error that stands for an authentication failure
AuthenticationFailure(outcome) ==
    /\ ~outcome.ok
    /\ outcome.error.cls = "StegoError"
    /\ outcome.error.text = <<"Decryption failed: Invalid password or corrupted data">>

\* the error embed_message raises from its capacity check
CapacityFailure(outcome) ==
    /\ ~outcome.ok
    /\ outcome.error.text = <<"Failed to embed message", "Insufficient capacity">>
    /\ outcome.error.nums = <<8 * (header_size + Len(enc.encrypted_data)),
                              Len(orig.data) * args.lsb_bits>>

\* C1 (as stated): whenever the ciphertext is at most
\* computeCapacity(totalSamples, lsbBits), for lsbBits 1 and 2 and scatter on
\* and off, embed_message succeeds, and decoding the returned buffer with the
\* password of the encode yields exactly the message.
C1_RoundTrip ==
    (Embedded /\ Len(enc.encrypted_data) <= computeCapacity(Len(orig.data), args.lsb_bits))
    => /\ emb.ok
       /\ (pc = "decoded" /\ dec.password = args.password)
          => (dec.ok /\ dec.message = args.message)

\* C2 (as stated): a payload exactly as long as the capacity is embedded, and
\* a payload one byte longer fails with a capacity error that reports the
\* required and the available amount.
C2_CapacityBoundary ==
    Embedded
    => /\ Len(enc.encrypted_data) = computeCapacity(Len(orig.data), args.lsb_bits)
          => emb.ok
       /\ Len(enc.encrypted_data) = computeCapacity(Len(orig.data), args.lsb_bits) + 1
          => CapacityFailure(emb)

\* the samples that carry a ciphertext bit
CiphertextSites == {emb.sites[k] : k \in (8 * header_size + 1)..Len(emb.sites)}

\* the samples that carry a bit of the header's CRC-32 field
CrcSites == {emb.sites[k] : k \in (8 * (header_size - 4) + 1)..(8 * header_size)}

\* C3: after the LSB of one sample that carries a ciphertext bit is flipped,
\* decoding with the password of the encode ends in an authentication
\* failure and returns no message.
C3_TamperDetected ==
    (pc = "decoded" /\ flipped \in CiphertextSites /\ dec.password = args.password)
    => AuthenticationFailure(dec)

C3_Witness ==
    /\ pc = "decoded"
    /\ flipped \in CiphertextSites
    /\ args.scatter
    /\ args.lsb_bits = 2
    /\ ~dec.ok

\* C4: decoding an encoded buffer with a password other than the one of the
\* encode ends in an authentication failure and returns no plaintext.
C4_WrongPassword ==
    (pc = "decoded" /\ dec.password # args.password) => AuthenticationFailure(dec)

C4_Witness ==
    /\ pc = "decoded"
    /\ dec.password # args.password
    /\ Len(args.message) > 0
    /\ ~dec.ok

\* C5: after a bit of the embedded header's CRC-32 field is flipped, the
\* decode fails inside extract_message with the header's CRC error, and
\* neither decrypt_message nor _derive_key is started.
C5_CrcBeforeCrypto ==
    (pc = "decoded" /\ flipped \in CrcSites)
    => /\ ~dec.ok
       /\ dec.error.text = <<"Failed to extract message", "Failed to parse header",
                             "Header CRC verification failed">>
       /\ dec.calls = <<"extract_message">>

C5_Witness ==
    /\ pc = "decoded"
    /\ flipped \in CrcSites
    /\ ~dec.ok
    /\ dec.calls = <<"extract_message">>

WrittenBits ==
    bytes_to_bits(create_header(enc.salt, enc.nonce, Len(enc.encrypted_data),
                                args.lsb_bits, args.scatter)
                  \o enc.encrypted_data)

C7_ShapeAndUntouched ==
    (Embedded /\ emb.ok)
    => /\ emb.audio.shape = orig.shape
       /\ Len(emb.audio.data) = Len(orig.data)
       /\ \A i \in 1..Len(orig.data) :
             (i - 1) \notin {emb.sites[k] : k \in 1..Len(emb.sites)}
             => emb.audio.data[i] = orig.data[i]

C7_Witness ==
    /\ pc = "embedded"
    /\ Len(orig.shape) = 2
    /\ args.scatter
    /\ Len(emb.sites) < Len(orig.data)
    /\ emb.audio.data # orig.data

\* C8: the caller's array holds the values it held before the call, after
\* embed_message returned or raised and after extract_message returned or
\* raised.
C8_CallerUntouched ==
    /\ audio = orig
    /\ pc = "decoded" => stego = emb.audio

C8_Witness ==
    /\ pc = "embed_failed"
    /\ emb.error.text = <<"Failed to embed message", "index out of bounds">>
    /\ audio = orig

\* C9: for n samples and lsbBits 1 or 2 the capacity calculate_capacity
\* returns is max(0, floor(n * lsbBits / 8) - 42), never negative; it is k
\* for n = 336 + 8k and lsbBits = 1, and 12458 for n = 100000, lsbBits = 1.
C9_CapacityFormula ==
    (pc = "measured" /\ cap.loaded.ok)
    => /\ cap.result.ok
       /\ cap.result.value
          = computeCapacity(TotalSamples(cap.loaded.audio_data.shape), cap.lsb_bits)
       /\ cap.result.value >= 0
       /\ \A k \in 0..MaxCapSamples :
             (TotalSamples(cap.loaded.audio_data.shape) = 336 + 8 * k /\ cap.lsb_bits = 1)
             => cap.result.value = k
       /\ (TotalSamples(cap.loaded.audio_data.shape) = 100000 /\ cap.lsb_bits = 1)
          => cap.result.value = 12458

C9_Witness ==
    /\ pc = "measured"
    /\ cap.loaded.ok
    /\ TotalSamples(cap.loaded.audio_data.shape) = 100000
    /\ cap.lsb_bits = 1
    /\ cap.result.value = 12458

\* the header bytes have the CRC-32 of their first 38 bytes, the magic and
\* the version
ValidCrcMagicVersion(h) ==
    /\ Len(h) = header_size
    /\ PackU32(calculate_crc32(SubSeq(h, 1, header_size - 4)))
       = SubSeq(h, header_size - 3, header_size)
    /\ SubSeq(h, 1, 4) = magic_bytes
    /\ h[5] = version

\* C10 (as stated): a 42-byte header with valid CRC, magic and version whose
\* flags bits 0-1 hold 0 or 3 is rejected by _parse_header with the
\* invalid-LSB-bits error.
C10_RejectsOtherLsbCounts ==
    (pc = "parsed" /\ ValidCrcMagicVersion(hdr.header_bytes)
     /\ hdr.header_bytes[6] % 4 \notin {1, 2})
    => /\ ~hdr.result.ok
       /\ hdr.result.text = <<"Failed to parse header", "Invalid LSB bits">>

\* the trailing 4 bytes are the CRC-32 of the bytes before them
CrcValidates(h) ==
    PackU32(calculate_crc32(SubSeq(h, 1, Len(h) - 4))) = SubSeq(h, Len(h) - 3, Len(h))

\* what a 42-byte header whose CRC validates is answered with: the magic
\* error, else the version error, else the fields or the flags error
FieldChecksInOrder(h, result) ==
    IF SubSeq(h, 1, 4) # magic_bytes
    THEN result.text = <<"Failed to parse header",
                         "Invalid magic bytes - file not encoded with this tool">>
    ELSE IF h[5] # version
    THEN result.text = <<"Failed to parse header", "Unsupported version">>
    ELSE /\ result.ok \/ result.text = <<"Failed to parse header", "Invalid LSB bits">>
         /\ h[6] % 4 = 0 => ~result.ok

\* C11: _parse_header checks length, CRC-32, magic, version and flags in this
\* order and reports the first check that fails; a header whose CRC does not
\* validate gets the checksum error whatever its magic, version and flags
\* are, and no field of it is returned.
C11_ValidationOrder ==
    pc = "parsed"
    => \A h \in {hdr.header_bytes} :
          IF Len(h) < header_size
          THEN hdr.result.text = <<"Failed to parse header", "Header too short">>
          ELSE IF ~CrcValidates(h)
          THEN /\ hdr.result.text = <<"Failed to parse header",
                                      "Header CRC verification failed">>
               /\ DOMAIN hdr.result = {"ok", "cls", "text", "nums"}
               /\ ~hdr.result.ok
          ELSE Len(h) = header_size => FieldChecksInOrder(h, hdr.result)

C11_Witness ==
    /\ pc = "parsed"
    /\ Len(hdr.header_bytes) = header_size
    /\ SubSeq(hdr.header_bytes, 1, 4) # magic_bytes
    /\ hdr.header_bytes[5] # version
    /\ hdr.header_bytes[6] % 4 = 0
    /\ hdr.result.text = <<"Failed to parse header", "Header CRC verification failed">>

\* C12: for a 16-byte salt, a 12-byte nonce, a payload length, lsbBits 1 or 2
\* and either scatter flag, _parse_header of what _create_header returns
\* succeeds and returns the same salt, nonce, payload length, lsbBits and
\* scatter flag.
C12_HeaderRoundTrip ==
    (pc = "created" /\ hdr.lsb_bits \in {1, 2})
    => /\ hdr.result.ok
       /\ hdr.result.salt = hdr.salt
       /\ hdr.result.nonce = hdr.nonce
       /\ hdr.result.payload_length = hdr.payload_length
       /\ hdr.result.lsb_bits = hdr.lsb_bits
       /\ hdr.result.scatter = hdr.scatter

C12_Witness ==
    /\ pc = "created"
    /\ hdr.lsb_bits = 2
    /\ hdr.scatter
    /\ hdr.payload_length = 2147483647
    /\ hdr.result.ok
    /\ hdr.result.payload_length = 2147483647

\* the 4 bytes of n, most significant first
BigEndian(n) ==
    <<n \div 16777216, (n \div 65536) % 256, (n \div 256) % 256, n % 256>>

\* C13: _create_header returns exactly 42 bytes: magic in bytes 0-3, version
\* in byte 4, flags in byte 5 (bits 0-1 lsbBits, bit 2 scatter), salt in
\* bytes 6-21, nonce in bytes 22-33, the payload length big-endian in bytes
\* 34-37, the CRC-32 of bytes 0-37 big-endian in bytes 38-41.
C13_HeaderLayout ==
    pc = "created"
    => \A h \in {hdr.header_bytes} :
          /\ Len(h) = 42
          /\ SubSeq(h, 1, 4) = <<65, 83, 84, 71>>
          /\ h[5] = 1
          /\ h[6] % 4 = hdr.lsb_bits % 4
          /\ (h[6] \div 4) % 2 = (IF hdr.scatter THEN 1 ELSE 0)
          /\ h[6] < 8
          /\ SubSeq(h, 7, 22) = hdr.salt
          /\ SubSeq(h, 23, 34) = hdr.nonce
          /\ SubSeq(h, 35, 38) = BigEndian(hdr.payload_length)
          /\ SubSeq(h, 39, 42) = PackU32(calculate_crc32(SubSeq(h, 1, 38)))

C13_Witness ==
    /\ pc = "created"
    /\ hdr.lsb_bits = 2
    /\ hdr.scatter
    /\ hdr.payload_length = 16777216 + 515
    /\ SubSeq(hdr.header_bytes, 35, 38) = <<1, 0, 2, 3>>
    /\ hdr.header_bytes[6] = 6

\* the calls of _generate_scatter_indices the state holds
KeptCalls == {scat.first, scat.last} \ {None}

\* a is the sequence of the first Len(a) elements of b
IsPrefix(a, b) == Len(a) <= Len(b) /\ a = SubSeq(b, 1, Len(a))

\* C14: for count <= totalAvailable, _generate_scatter_indices returns exactly
\* count indices, pairwise distinct, each in [0, totalAvailable).
C14_PermutationPrefix ==
    pc = "scattered"
    => \A call \in KeptCalls :
          call.count <= call.total_samples
          => /\ call.result.ok
             /\ Len(call.result.indices) = call.count
             /\ \A i \in 1..call.count :
                   /\ call.result.indices[i] \in 0..(call.total_samples - 1)
                   /\ \A j \in 1..call.count :
                         call.result.indices[i] = call.result.indices[j] => i = j

C14_Witness ==
    /\ pc = "scattered"
    /\ scat.last.count = 6
    /\ scat.last.total_samples = 6
    /\ scat.last.result.ok
    /\ scat.last.result.indices # <<0, 1, 2, 3, 4, 5>>

\* C15: two calls of _generate_scatter_indices with the same count, total and
\* salt return the same sequence, whatever calls were made in between; with
\* the same total and salt, the sequence of the smaller count is a prefix of
\* the sequence of the larger count.
C15_Deterministic ==
    (pc = "scattered" /\ scat.first.total_samples = scat.last.total_samples
     /\ scat.first.salt = scat.last.salt)
    => /\ scat.first.count = scat.last.count => scat.first.result = scat.last.result
       /\ (scat.first.result.ok /\ scat.last.result.ok)
          => \/ IsPrefix(scat.first.result.indices, scat.last.result.indices)
             \/ IsPrefix(scat.last.result.indices, scat.first.result.indices)
       /\ (scat.first.result.ok /\ scat.last.result.ok
           /\ scat.first.count <= scat.last.count)
          => IsPrefix(scat.first.result.indices, scat.last.result.indices)

C15_Witness ==
    /\ pc = "scattered"
    /\ scat.first.total_samples = 6
    /\ scat.last.total_samples = 6
    /\ scat.first.salt = scat.last.salt
    /\ scat.first.count = 3
    /\ scat.last.count = 5
    /\ SubSeq(scat.last.result.indices, 1, 3) = scat.first.result.indices

\* C16: _generate_scatter_indices with count > totalAvailable fails with the
\* not-enough-samples error and returns no index list.
C16_ScatterCapacityError ==
    pc = "scattered"
    => \A call \in KeptCalls :
          call.count > call.total_samples
          => /\ ~call.result.ok
             /\ call.result.cls = "StegoError"
             /\ call.result.text = <<"Failed to generate scatter indices",
                                     "Not enough samples for scatter pattern">>
             /\ "indices" \notin DOMAIN call.result

C16_Witness ==
    /\ pc = "scattered"
    /\ scat.last.count = scat.last.total_samples + 1
    /\ scat.last.total_samples > 0
    /\ ~scat.last.result.ok

\* the texts of the errors extract_message raises for a buffer that ends
\* before the data its header announces
TruncatedTexts ==
    {<<"Failed to extract message", "Audio file too short for header">>,
     <<"Failed to extract message", "Audio file too short for complete message">>,
     <<"Failed to extract message", "Failed to generate scatter indices",
       "Not enough samples for scatter pattern">>}

\* C17: on every buffer (empty, shorter than 336 samples, carrying a header
\* with valid CRC whose payload length is more than the buffer holds, scatter
\* on or off) extract_message returns a result or raises a StegoError, the
\* truncated-input one when the buffer is too short for its header or its
\* payload; it reads no sample at an index >= the buffer length.
C17_ExtractInBounds ==
    pc = "extracted"
    => /\ dec.top < Len(stego.data)
       /\ dec.ok \/ dec.error.cls = "StegoError"
       /\ Len(stego.data) < 8 * header_size
          => (~dec.ok /\ dec.error.text
                         = <<"Failed to extract message", "Audio file too short for header">>)
       /\ Len(stego.data) >= 8 * header_size
          => \A carried \in {parse_header(bits_to_bytes(ReadBits(stego.data, HeaderSites)))} :
                carried.ok
                => IF 8 * (header_size + carried.payload_length) > Len(stego.data)
                   THEN ~dec.ok /\ dec.error.text \in TruncatedTexts
                   ELSE dec.ok /\ Len(dec.encrypted_data) = carried.payload_length

C17_Witness ==
    /\ pc = "extracted"
    /\ Len(stego.data) = 8 * header_size + 15
    /\ ~dec.ok
    /\ dec.error.text = <<"Failed to extract message",
                          "Audio file too short for complete message">>
    /\ dec.top = Len(stego.data) - 1

\* what decoding_complete receives when the tag verification failed
InvalidTagOutcome ==
    [ok |-> FALSE,
     error |-> StegoError(<<"Decryption failed: Invalid password or corrupted data">>, <<>>),
     calls |-> <<"extract_message", "decrypt_message", "_derive_key">>]

\* C18: a decode whose tag verification fails because the password is wrong
\* and one whose tag verification fails because a ciphertext bit was altered
\* (the header intact in both) end in the same outcome: the same error type
\* with the same message text.
C18_Indistinguishable ==
    (/\ pc = "decoded"
     /\ flipped \notin CrcSites
     /\ (dec.password # args.password \/ flipped \in CiphertextSites))
    => /\ ~dec.ok
       /\ dec.error = InvalidTagOutcome.error
       /\ dec.calls = InvalidTagOutcome.calls

C18_Witness ==
    /\ pc = "decoded"
    /\ dec.password # args.password
    /\ flipped = -1
    /\ dec.error = InvalidTagOutcome.error

\* the value of 8 bits read most significant bit first, from bits[first]
RECURSIVE MsbFirstValue(_, _, _)
MsbFirstValue(bits, first, n) ==
    IF n = 0 THEN 0 ELSE 2 * MsbFirstValue(bits, first, n - 1) + bits[first + n - 1]

\* C19: bytes_to_bits(b) has 8 * len(b) bits, each 0 or 1, the 8 bits of byte
\* i being that byte most significant bit first, and
\* bits_to_bytes(bytes_to_bits(b)) is b.
C19_BitPackerRoundTrip ==
    pc = "packed"
    => /\ Len(hdr.bits) = 8 * Len(hdr.data)
       /\ \A k \in 1..Len(hdr.bits) : hdr.bits[k] \in {0, 1}
       /\ \A i \in 1..Len(hdr.data) :
             /\ MsbFirstValue(hdr.bits, 8 * (i - 1) + 1, 8) = hdr.data[i]
             /\ hdr.bits[8 * (i - 1) + 1] = hdr.data[i] \div 128
             /\ hdr.bits[8 * i] = hdr.data[i] % 2
       /\ hdr.bytes_data = hdr.data

C19_Witness ==
    /\ pc = "packed"
    /\ hdr.data = <<128, 1>>
    /\ hdr.bits = <<1, 0, 0, 0, 0, 0, 0, 0, 0, 0, 0, 0, 0, 0, 0, 1>>
    /\ hdr.bytes_data = <<128, 1>>

\* C20: when embed_message has succeeded with lsb_bits 1 or 2,
\* extract_message on the returned buffer reads the samples embed wrote, in
\* the order it wrote them, and returns the ciphertext, the salt and the
\* nonce that were embedded, salt and nonce being those of the header.
C20_EmbedExtractSymmetry ==
    (pc = "embedded" /\ emb.ok /\ args.lsb_bits \in {1, 2})
    => \A extracted \in {extract_message(emb.audio)} :
          /\ extracted.ok
          /\ extracted.sites = emb.sites
          /\ extracted.encrypted_data = enc.encrypted_data
          /\ extracted.salt = enc.salt
          /\ extracted.nonce = enc.nonce
          /\ \A header_info \in
                 {parse_header(bits_to_bytes(ReadBits(Flatten(emb.audio), HeaderSites)))} :
                 /\ header_info.ok
                 /\ header_info.salt = extracted.salt
                 /\ header_info.nonce = extracted.nonce

C20_Witness ==
    /\ pc = "embedded"
    /\ emb.ok
    /\ args.lsb_bits = 2
    /\ args.scatter
    /\ Len(enc.encrypted_data) > TagLength
    /\ emb.sites # HeaderSites \o PayloadSites(8 * Len(enc.encrypted_data), FALSE, <<>>)
    /\ extract_message(emb.audio).encrypted_data = enc.encrypted_data

\* C21: in every successful embed_message, with scatter on and with scatter
\* off, the LSB of sample i (0 <= i < 336) is bit i of the header of that
\* call, and the headers of the two scatter settings differ at most in the
\* flags byte (bits 40..47) and the CRC (bits 304..335).
C21_HeaderPlacement ==
    (Embedded /\ emb.ok)
    => \A header_bits \in
          {bytes_to_bits(create_header(enc.salt, enc.nonce, Len(enc.encrypted_data),
                                       args.lsb_bits, args.scatter))} :
          /\ ReadBits(Flatten(emb.audio), HeaderSites) = header_bits
          /\ SubSeq(emb.sites, 1, header_size * 8) = HeaderSites
          /\ \A other_bits \in
                 {bytes_to_bits(create_header(enc.salt, enc.nonce, Len(enc.encrypted_data),
                                              args.lsb_bits, ~args.scatter))} :
                 \A i \in 1..(header_size * 8) :
                    (i \notin 41..48 /\ i <= 8 * (header_size - 4))
                    => other_bits[i] = header_bits[i]

C21_Witness ==
    /\ pc = "embedded"
    /\ emb.ok
    /\ args.scatter
    /\ ReadBits(Flatten(emb.audio), HeaderSites)
       = bytes_to_bits(create_header(enc.salt, enc.nonce, Len(enc.encrypted_data),
                                     args.lsb_bits, TRUE))
    /\ emb.sites # HeaderSites \o PayloadSites(8 * Len(enc.encrypted_data), FALSE, <<>>)

\* C22: in every successful embed_message, payload bit i is written at
\* sample 336 + indices[i] with scatter (indices those of
\* _generate_scatter_indices over the samples after the header) and at
\* sample 336 + i without; every payload write is at an index >= 336 inside
\* the buffer, no two payload bits share a sample, and the LSBs of those
\* samples are the payload bits.
C22_PayloadPlacement ==
    (Embedded /\ emb.ok)
    => \A count \in {8 * Len(enc.encrypted_data)} :
          /\ Len(emb.sites) = header_size * 8 + count
          /\ \A written \in {SubSeq(emb.sites, header_size * 8 + 1, Len(emb.sites))} :
                /\ \A i \in 1..count :
                      /\ written[i] >= header_size * 8
                      /\ written[i] < Len(orig.data)
                      /\ \A j \in 1..count : written[i] = written[j] => i = j
                /\ ReadBits(Flatten(emb.audio), written) = bytes_to_bits(enc.encrypted_data)
                /\ ~args.scatter => \A i \in 1..count : written[i] = header_size * 8 + i - 1
                /\ args.scatter
                   => \A scattered \in
                         {generate_scatter_indices(count, Len(orig.data) - header_size * 8,
                                                   enc.salt)} :
                         /\ scattered.ok
                         /\ \A i \in 1..count :
                               written[i] = header_size * 8 + scattered.indices[i]

C22_Witness ==
    /\ pc = "embedded"
    /\ emb.ok
    /\ args.scatter
    /\ Len(enc.encrypted_data) > TagLength
    /\ \E i \in (header_size * 8 + 1)..(Len(emb.sites) - 1) : emb.sites[i] > emb.sites[i + 1]
    /\ \A i \in (header_size * 8 + 1)..Len(emb.sites) : emb.sites[i] >= header_size * 8

\* C23: after any sequence of calculate_capacity, embed_message,
\* extract_message and _generate_scatter_indices calls on one instance,
\* calls that raise included, the fields of the instance are those
\* __init__ set, the module-level generator is untouched, and a call with the
\* arguments of the first call of the sequence has the result of that call.
C23_Stateless ==
    pc = "called"
    => /\ svc = StegoService
       /\ scat.module_rng = 1
       /\ (scat.first.op = scat.last.op /\ scat.first.args = scat.last.args)
          => scat.first.result = scat.last.result

C23_Witness ==
    /\ pc = "called"
    /\ scat.others
    /\ scat.first.op = "embed_message"
    /\ scat.last.op = "embed_message"
    /\ scat.first.args = scat.last.args
    /\ scat.first.args[6]
    /\ ~scat.first.result.ok
    /\ scat.last.result = scat.first.result
    /\ svc = StegoService

\* C24 (as stated): bits_to_bytes leaves the bit list of the caller
\* unchanged, same length and same elements, for every input length, and for
\* a length that is not a multiple of 8 its result is that of the input
\* right-padded with zero bits.
C24_NoSideEffect ==
    pc = "converted"
    => /\ hdr.caller = hdr.bits
       /\ Len(hdr.bytes_data) = (Len(hdr.bits) + 7) \div 8
       /\ \A i \in 1..Len(hdr.bits) :
             BitOf(hdr.bytes_data[((i - 1) \div 8) + 1], 7 - ((i - 1) % 8)) = hdr.bits[i]
       /\ \A i \in (Len(hdr.bits) + 1)..(8 * Len(hdr.bytes_data)) :
             BitOf(hdr.bytes_data[((i - 1) \div 8) + 1], 7 - ((i - 1) % 8)) = 0

\* C25 (as stated): in the encode tab and in the decode tab, once a start
\* has set the busy flag and started the worker, the completion handler
\* eventually runs with the result or the error text of the worker, the busy
\* flag is False again and the button is enabled, when the worker succeeds
\* and when it raises, under every interleaving of worker and event loop.
C25_EveryAttemptCompletes ==
    \A t \in 1..MaxAttempts :
       (ui.threads[t].pos = "run")
       ~> (/\ ui.threads[t].handled \in {"ok", "error"}
           /\ ~ui.busy
           /\ ui.button = "normal")

\* the worker threads of the tab that have started and not ended
LiveWorkers == {t \in 1..MaxAttempts : ui.threads[t].pos \in {"run", "return", "except"}}

\* the worker threads that have not scheduled their completion yet
BusyWorkers == {t \in 1..MaxAttempts : ui.threads[t].pos = "run"}

\* C26 (as stated): at any moment at most one worker thread of the tab is
\* running, and the busy flag is True during the whole lifetime of a worker.
C26_OneLiveWorker ==
    ui # None
    => /\ Cardinality(LiveWorkers) <= 1
       /\ LiveWorkers # {} => ui.busy

\* C26 (amended): at any moment at most one worker thread of the tab has not
\* yet scheduled its completion; the busy flag is True from the start of a
\* worker until its completion handler has run; and a start request made
\* while the flag is True starts no thread and changes nothing.
C26_OneBusyWorker ==
    /\ [](ui # None
          => /\ Cardinality(BusyWorkers) <= 1
             /\ \A t \in 1..MaxAttempts :
                   (ui.threads[t].pos # "new" /\ ui.threads[t].handled = "no") => ui.busy
             /\ ui.busy => \E t \in 1..MaxAttempts :
                              ui.threads[t].pos # "new" /\ ui.threads[t].handled \in {"no", "NameError"})
    /\ [][ui.busy => /\ ui'.started = ui.started
                     /\ \A t \in 1..MaxAttempts :
                           ui.threads[t].pos = "new" => ui'.threads[t].pos = "new"
                     /\ ui'.request # ui.request
                        => (ui'.request = "ignored"
                            /\ ui' = [ui EXCEPT !.request = "ignored"])]_vars

C26_Witness ==
    /\ ui # None
    /\ ui.busy
    /\ ui.request = "ignored"
    /\ ui.started = 2
    /\ ui.threads[1].pos = "return"
    /\ ui.threads[2].pos = "run"

\* C27: in the decode tab, the message field is non-empty or the copy button
\* enabled only if the attempt started last has finished successfully, and
\* the field then shows the message of that attempt; from the start of an
\* attempt until its handler has run, and after an attempt that failed, the
\* field is empty and the copy button disabled.
C27_NoStalePlaintext ==
    (ui # None /\ ui.tab = "decode")
    => /\ (ui.text # "" \/ ui.copy = "normal")
          => /\ ui.started >= 1
             /\ ui.threads[ui.started].handled = "ok"
             /\ ui.text = ui.threads[ui.started].result
             /\ ui.copy = "normal"
       /\ (ui.started >= 1 /\ ui.threads[ui.started].handled # "ok")
          => (ui.text = "" /\ ui.copy = "disabled")

C27_Witness ==
    /\ ui # None
    /\ ui.tab = "decode"
    /\ ui.started = 2
    /\ ui.threads[1].handled = "ok"
    /\ ui.threads[1].result = "A"
    /\ ui.threads[2].handled = "error"
    /\ ui.text = ""
    /\ ui.copy = "disabled"

\* C28 (as stated): for every lsb_bits a caller can pass, embed_message
\* either fails or returns a buffer whose embedded header _parse_header
\* accepts, with the lsb_bits and the scatter that were passed to embed.
C28_HeaderRecordsLsbBits ==
    (pc = "embedded_any" /\ emb.ok)
    => \A header_info \in
          {parse_header(bits_to_bytes(ReadBits(Flatten(emb.audio), HeaderSites)))} :
          /\ header_info.ok
          /\ header_info.lsb_bits = args.lsb_bits
          /\ header_info.scatter = args.scatter

\* the samples appended to a buffer: one or two frames of either width
AppendedSamples == {<<0, 0>>, <<1, 1>>, <<32767, -32768, 1, 0>>}

\* np.concatenate: the array with the samples more at its end
Concatenated(audio_data, more) ==
    [shape |-> IF Len(audio_data.shape) = 1 THEN <<audio_data.shape[1] + Len(more)>>
               ELSE <<audio_data.shape[1] + (Len(more) \div 2), 2>>,
     data |-> audio_data.data \o more]

\* C29 (as stated): for a buffer a successful embed_message returned,
\* appending samples to its end leaves the (ciphertext, salt, nonce) that
\* extract_message returns unchanged, without scatter and with scatter.
C29_AppendIrrelevant ==
    (pc = "embedded" /\ emb.ok)
    => \A more \in AppendedSamples :
          \A extracted \in {extract_message(Concatenated(emb.audio, more))} :
             /\ extracted.ok
             /\ extracted.encrypted_data = enc.encrypted_data
             /\ extracted.salt = enc.salt
             /\ extracted.nonce = enc.nonce

\* C29 (amended): without scatter, appending samples leaves the
\* (ciphertext, salt, nonce) of extract_message unchanged; with scatter the
\* salt, the nonce and the length of the ciphertext are unchanged, and the
\* payload is read at the scatter indices of the longer buffer.
C29_AppendSequential ==
    (pc = "embedded" /\ emb.ok)
    => \A more \in AppendedSamples :
          \A extracted \in {extract_message(Concatenated(emb.audio, more))} :
             /\ extracted.ok
             /\ extracted.salt = enc.salt
             /\ extracted.nonce = enc.nonce
             /\ Len(extracted.encrypted_data) = Len(enc.encrypted_data)
             /\ ~args.scatter
                => (extracted.encrypted_data = enc.encrypted_data
                    /\ extracted.sites = emb.sites)
             /\ args.scatter
                => \A scattered \in
                      {generate_scatter_indices(8 * Len(enc.encrypted_data),
                                                Len(emb.audio.data) + Len(more)
                                                - header_size * 8,
                                                enc.salt)} :
                      extracted.sites
                      = HeaderSites \o PayloadSites(8 * Len(enc.encrypted_data), TRUE,
                                                    scattered.indices)

C29_Witness ==
    /\ pc = "embedded"
    /\ emb.ok
    /\ ~args.scatter
    /\ Len(emb.audio.shape) = 2
    /\ Len(enc.encrypted_data) > TagLength
    /\ extract_message(Concatenated(emb.audio, <<32767, -32768, 1, 0>>)).encrypted_data
       = enc.encrypted_data

\* C30: when embed_message has succeeded on a buffer, embed_message with the
\* same ciphertext, salt, nonce, lsb_bits and scatter on the buffer it
\* returned succeeds and returns a buffer equal to the first result.
C30_EmbedIdempotent ==
    (pc = "embedded" /\ emb.ok)
    => \A again \in {embed_message(emb.audio, enc.encrypted_data, enc.salt, enc.nonce,
                                   args.lsb_bits, args.scatter)} :
          /\ again.ok
          /\ again.audio = emb.audio
          /\ again.sites = emb.sites

C30_Witness ==
    /\ pc = "embedded"
    /\ emb.ok
    /\ args.scatter
    /\ args.lsb_bits = 2
    /\ emb.audio.data # orig.data
    /\ embed_message(emb.audio, enc.encrypted_data, enc.salt, enc.nonce, 2, TRUE).audio
       = emb.audio

====
